---- MODULE Spec2Model ----
(***************************************************************************)
(* A model of the per-connection pipeline of the VLESS server:             *)
(* accept -> demux -> (TLS handshake) -> header decode -> authenticate ->  *)
(* response -> dial -> relay (TCP) or UDP-over-TCP session -> teardown.    *)
(*                                                                         *)
(* Spec     one connection, byte-exact, every suspension point a step.     *)
(* SpecGov  several connections, each reduced to its life cycle, for the   *)
(*          process-wide connection accounting.                            *)
(***************************************************************************)
EXTENDS Integers, Sequences, FiniteSets, TLC

VARIABLES
    \* ---- the client side of the connection (environment)
    conn_tls,       \* the client speaks TLS on the wire (first raw byte 0x16)
    tls_config,     \* VlessServer.tls_config.is_some()
    script,         \* the plaintext bytes the client will send, header first
    c_sent,         \* how many bytes of script have reached the server socket
    c_read,         \* how many of them the server has consumed
    c_eof,          \* the client has closed its write side
    c_rst,          \* the client connection is broken (reads and writes fail)
    client_rx,      \* every byte the server has written to the client
    \* ---- the target side (environment)
    t_script,       \* the bytes the TCP target will send
    t_sent, t_read, t_eof, t_rst,
    target_rx,      \* every byte the server has written to the TCP target
    dialled,        \* number of targets dialled / UDP sockets bound
    udp_queue,      \* every datagram that has reached the session's UDP socket
    udp_read,       \* how many of them recv_from has returned
    udp_err,        \* the UDP socket reports a receive error
    udp_sent,       \* datagrams sent by the session: <<[dst, data], ...>>
    \* ---- the session handler (VlessServer::handle_connection and callees)
    pc,             \* the handler's suspension point
    result,         \* "none" | "ok" | "err" | "panic"
    tls_stream,     \* the handler runs on the decrypted stream
    request,        \* the decoded VlessRequest
    remaining_data, \* the bytes of the first read that follow the header
    target_addr,    \* the resolved destination
    vision_state,   \* VisionProcessor.state, "none" while there is no processor
    guard,          \* a ConnectionGuard is alive
    \* ---- the two direction tasks of a relay / UDP session
    up_pc, up_buf, up_total, up_batch,
    down_pc, down_buf, down_src, down_total, down_batch,
    \* ---- Stats
    active_connections, rejected_connections,
    total_upload_bytes, total_download_bytes,
    dec_tasks,      \* decrement tasks spawned by ConnectionGuard::drop, not yet run
    \* ---- SpecGov: the life cycle of each accepted connection
    sessions,
    \* ---- a function of the program evaluated on its own: argument and result
    fn_arg, fn_ret,
    \* ---- memory::BufferPool and the tasks that borrow from it
    pool,           \* the fields of one BufferPool
    borrowers,      \* per task: where it is between get_buffer and the drop
    \* ---- connection_pool::ConnectionPool, for one target address
    conn_pool,      \* the HashMap entry of the address and its queue
    conn_tasks,     \* per task: where it is in get_connection / return_connection
    \* ---- ws::WebSocketManager
    ws_manager,     \* connections (their ids), next_id, websocket_max_connections
    ws_calls        \* the last add_connection call and every id returned so far

vars == << conn_tls, tls_config, script, c_sent, c_read, c_eof, c_rst, client_rx,
           t_script, t_sent, t_read, t_eof, t_rst, target_rx, dialled,
           udp_queue, udp_read, udp_err, udp_sent,
           pc, result, tls_stream, request, remaining_data, target_addr,
           vision_state, guard,
           up_pc, up_buf, up_total, up_batch,
           down_pc, down_buf, down_src, down_total, down_batch,
           active_connections, rejected_connections,
           total_upload_bytes, total_download_bytes, dec_tasks, sessions,
           fn_arg, fn_ret, pool, borrowers, conn_pool, conn_tasks,
           ws_manager, ws_calls >>

-----------------------------------------------------------------------------
(* Bounds of the model *)

MaxPayload == 2        \* bytes the client sends after the header
MaxTargetBytes == 2    \* bytes the TCP target sends
MaxDatagrams == 2      \* datagrams arriving at the UDP socket
RelayBufferSize == 2   \* performance.buffer_size / udp_recv_buffer, scaled down
StatsBatchSize == 2    \* performance.stats_batch_size, scaled down
MaxSessions == 3       \* connections accepted in SpecGov
MaxShortRecord == 2    \* longest record body among the short detect_tls_content inputs
SpliceBufferSize == 2      \* splice_transfer BUFFER_SIZE, scaled down
SpliceBatchSize == 3       \* splice_transfer BATCH_SIZE, scaled down
EncryptedBufferSize == 2   \* encrypted_transfer BUFFER_SIZE, scaled down
EncryptedBatchSize == 2    \* encrypted_transfer BATCH_SIZE, scaled down

(* Program constants *)

HeaderBufferSize == 4096        \* the small pool's buffer, used for the header read
PeekBufferSize == 4096          \* initial_buf
DetectBufferSize == 8192        \* detect_buffer
MaxTlsRecordLength == 16384     \* detect_tls_content: largest record length accepted
vless_max_connections == 2      \* monitoring.vless_max_connections, scaled down
VLESS_VERSION_BETA == 0
VLESS_VERSION_RELEASE == 1

-----------------------------------------------------------------------------
(* Sequences of bytes *)

Min(a, b) == IF a < b THEN a ELSE b

Drop(s, n) == SubSeq(s, n + 1, Len(s))

Take(s, n) == SubSeq(s, 1, n)

IsPrefix(p, s) == Len(p) <= Len(s) /\ Take(s, Len(p)) = p

Fill(n, b) == [i \in 1..n |-> b]

-----------------------------------------------------------------------------
(* AsyncWriteExt::write_all: every byte of buf reaches the peer, in order. *)

WriteAll_Short(stream, buf) == stream \o Take(buf, Min(1, Len(buf)))

WriteAll(stream, buf) == stream \o buf

-----------------------------------------------------------------------------
(* Wire codec: protocol.rs *)

\* String::from_utf8: well-formed UTF-8 (RFC 3629), as the standard library checks it.
RECURSIVE IsUtf8(_)
IsUtf8(s) ==
    IF \A i \in 1..Len(s) : s[i] < 128 THEN TRUE
    ELSE LET b == s[1]
             Cont(i, lo, hi) == Len(s) >= i /\ s[i] >= lo /\ s[i] <= hi
         IN  IF b < 128 THEN IsUtf8(Drop(s, 1))
             ELSE IF b >= 194 /\ b <= 223
                  THEN Cont(2, 128, 191) /\ IsUtf8(Drop(s, 2))
             ELSE IF b = 224
                  THEN Cont(2, 160, 191) /\ Cont(3, 128, 191) /\ IsUtf8(Drop(s, 3))
             ELSE IF (b >= 225 /\ b <= 236) \/ b = 238 \/ b = 239
                  THEN Cont(2, 128, 191) /\ Cont(3, 128, 191) /\ IsUtf8(Drop(s, 3))
             ELSE IF b = 237
                  THEN Cont(2, 128, 159) /\ Cont(3, 128, 191) /\ IsUtf8(Drop(s, 3))
             ELSE IF b = 240
                  THEN Cont(2, 144, 191) /\ Cont(3, 128, 191) /\ Cont(4, 128, 191)
                       /\ IsUtf8(Drop(s, 4))
             ELSE IF b >= 241 /\ b <= 243
                  THEN Cont(2, 128, 191) /\ Cont(3, 128, 191) /\ Cont(4, 128, 191)
                       /\ IsUtf8(Drop(s, 4))
             ELSE IF b = 244
                  THEN Cont(2, 128, 143) /\ Cont(3, 128, 191) /\ Cont(4, 128, 191)
                       /\ IsUtf8(Drop(s, 4))
             ELSE FALSE

NoAddress == [type |-> 0, bytes |-> << >>]

AddressErr == [tag |-> "err", address |-> NoAddress, rest |-> << >>]

\* AddressType::try_from: 1 = IPv4, 2 = domain, 3 = IPv6, anything else an error
AddressTypeValid(value) == value \in {1, 2, 3}

\* Address::decode: the cursor is the argument, the result carries what is left of it.
AddressDecode(buf) ==
    IF Len(buf) = 0 THEN AddressErr
    ELSE LET addr_type == buf[1]
             b == Drop(buf, 1)
         IN  IF ~AddressTypeValid(addr_type) THEN AddressErr
             ELSE IF addr_type = 1
             THEN IF Len(b) < 4 THEN AddressErr
                  ELSE [tag |-> "ok", address |-> [type |-> 1, bytes |-> Take(b, 4)],
                        rest |-> Drop(b, 4)]
             ELSE IF addr_type = 2
             THEN IF Len(b) = 0 THEN AddressErr
                  ELSE LET len == b[1]
                           d == Drop(b, 1)
                       IN  IF Len(d) < len THEN AddressErr
                           ELSE IF ~IsUtf8(Take(d, len)) THEN AddressErr
                           ELSE [tag |-> "ok",
                                 address |-> [type |-> 2, bytes |-> Take(d, len)],
                                 rest |-> Drop(d, len)]
             ELSE IF Len(b) < 16 THEN AddressErr
                  ELSE [tag |-> "ok", address |-> [type |-> 3, bytes |-> Take(b, 16)],
                        rest |-> Drop(b, 16)]

\* The version test of VlessRequest::decode
VersionSupported_Any(version) == TRUE

VersionSupported(version) ==
    version = VLESS_VERSION_BETA \/ version = VLESS_VERSION_RELEASE

\* Command::try_from succeeds
CommandValid_Any(value) == TRUE

CommandValid(value) == value \in {1, 2, 3}

\* "xtls-rprx-vision" and "xtls-rprx-vision-udp443" in ASCII
VisionTag == <<120, 116, 108, 115, 45, 114, 112, 114, 120, 45, 118, 105, 115, 105, 111, 110>>

VisionUdp443Tag == VisionTag \o <<45, 117, 100, 112, 52, 52, 51>>

\* t occurs in s as a run of consecutive bytes
Contains(s, t) ==
    \E i \in 0..(Len(s) - Len(t)) : SubSeq(s, i + 1, i + Len(t)) = t

\* XtlsFlow of a request: a tag search over the addons payload.
XtlsFlowOf_ShortTagFirst(addons) ==
    IF Contains(addons, VisionTag) THEN "XtlsRprxVision"
    ELSE IF Contains(addons, VisionUdp443Tag) THEN "XtlsRprxVisionUdp443"
    ELSE "None"

XtlsFlowOf(addons) ==
    IF Contains(addons, VisionUdp443Tag) THEN "XtlsRprxVisionUdp443"
    ELSE IF Contains(addons, VisionTag) THEN "XtlsRprxVision"
    ELSE "None"

NoRequest == [version |-> 0, uuid |-> << >>, addons |-> << >>, command |-> 0,
              port |-> 0, address |-> NoAddress, xtls_flow |-> "None"]

DecodeErr == [tag |-> "err", request |-> NoRequest, remaining |-> << >>]

\* Buf::get_u8 / get_u16 on a cursor that is too short panics.
DecodePanic == [tag |-> "panic", request |-> NoRequest, remaining |-> << >>]

\* VlessRequest::decode
VlessRequestDecode(buf) ==
    IF Len(buf) < 18 THEN DecodeErr
    ELSE LET version == buf[1] IN
         IF ~VersionSupported(version) THEN DecodeErr
         ELSE LET uuid == SubSeq(buf, 2, 17)
                  addons_length == buf[18]
                  b1 == Drop(buf, 18)
              IN  IF addons_length > 0 /\ Len(b1) < addons_length THEN DecodeErr
                  ELSE LET addons == Take(b1, addons_length)
                           b2 == Drop(b1, addons_length)
                       IN  IF Len(b2) < 1 THEN DecodePanic
                           ELSE IF ~CommandValid(b2[1]) THEN DecodeErr
                           ELSE IF Len(b2) < 3 THEN DecodePanic
                           ELSE LET a == AddressDecode(Drop(b2, 3)) IN
                                IF a.tag # "ok" THEN DecodeErr
                                ELSE [tag |-> "ok",
                                      request |-> [version |-> version,
                                                   uuid |-> uuid,
                                                   addons |-> addons,
                                                   command |-> b2[1],
                                                   port |-> b2[2] * 256 + b2[3],
                                                   address |-> a.address,
                                                   xtls_flow |-> XtlsFlowOf(addons)],
                                      remaining |-> a.rest]

\* VlessResponse::new_with_version(version).encode()
VlessResponseEncode_Release(version) == << VLESS_VERSION_RELEASE, 0 >>

VlessResponseEncode_ExtraByte(version) == << version, 0, 0 >>

VlessResponseEncode(version) == << version, 0 >>

\* http::is_http_request: one of nine 4-byte method prefixes
HttpPrefixes ==
    { <<71, 69, 84, 32>>, <<80, 79, 83, 84>>, <<72, 69, 65, 68>>,
      <<80, 85, 84, 32>>, <<68, 69, 76, 69>>, <<79, 80, 84, 73>>,
      <<80, 65, 84, 67>>, <<67, 79, 78, 78>>, <<84, 82, 65, 67>> }

is_http_request(data) == Len(data) >= 4 /\ Take(data, 4) \in HttpPrefixes

-----------------------------------------------------------------------------
(* Configuration and inputs *)

UuidA == Fill(16, 17)

UuidB == Fill(16, 34)

\* ServerConfig.users
users == { UuidA }

\* The wire layout of a request header (spec section 6), used to build inputs.
Header(version, uuid, addons, command, port, addr_type, addr_bytes) ==
    << version >> \o uuid \o << Len(addons) >> \o addons \o << command >>
        \o << port \div 256, port % 256 >> \o << addr_type >> \o addr_bytes

H_Tcp4 == Header(1, UuidA, << >>, 1, 443, 1, <<127, 0, 0, 1>>)

H_TcpDomain == Header(0, UuidA, << >>, 1, 80, 2, <<1, 97>>)

H_Udp == Header(1, UuidA, << >>, 2, 53, 1, <<8, 8, 8, 8>>)

H_Mux == Header(1, UuidA, << >>, 3, 443, 1, <<127, 0, 0, 1>>)

H_UnknownUser == Header(1, UuidB, << >>, 1, 443, 1, <<127, 0, 0, 1>>)

H_BadVersion == Header(2, UuidA, << >>, 1, 443, 1, <<127, 0, 0, 1>>)

H_BadCommand == Header(1, UuidA, << >>, 4, 443, 1, <<127, 0, 0, 1>>)

H_BadAddrType == Header(1, UuidA, << >>, 1, 443, 4, <<127, 0, 0, 1>>)

H_BadUtf8 == Header(1, UuidA, << >>, 1, 443, 2, <<1, 255>>)

\* "GET /"
H_HttpGet == <<71, 69, 84, 32, 47>>

\* "PRI *": the first bytes of the HTTP/2 connection preface
H_Http2Preface == <<80, 82, 73, 32, 42>>

H_Vision == Header(1, UuidA, VisionTag, 1, 443, 1, <<127, 0, 0, 1>>)

H_VisionUdp443 == Header(1, UuidA, VisionUdp443Tag, 1, 443, 1, <<127, 0, 0, 1>>)

H_VisionUdp == Header(1, UuidA, VisionTag, 2, 53, 1, <<8, 8, 8, 8>>)

MalformedHeaders == { H_BadVersion, H_BadCommand, H_BadAddrType, H_BadUtf8 }

VisionHeaders == { H_Vision, H_VisionUdp443, H_VisionUdp }

HeaderCorpus ==
    { H_Tcp4, H_TcpDomain, H_Udp, H_Mux, H_UnknownUser, H_HttpGet, H_Http2Preface }
        \cup MalformedHeaders \cup VisionHeaders

\* The payload bytes are pairwise distinct, so loss, duplication and reordering show.
ClientPayload(k) == [i \in 1..k |-> 100 + i]

TargetPayload(k) == [i \in 1..k |-> 200 + i]

\* A complete TLS record: application data, TLS 1.2, empty body.
TlsRecord == <<23, 3, 3, 0, 0>>

\* A Vision client whose inner traffic is TLS: it reaches the server over TLS.
TlsRecordScripts ==
    { H_Vision \o TlsRecord \o ClientPayload(k) : k \in 0..(MaxPayload - 1) }
        \cup { H_VisionUdp443 \o TlsRecord }

\* What a client that asks for a Vision flow sends after the header.
VisionScripts ==
    { H_Vision \o ClientPayload(k) : k \in 0..MaxPayload }
        \cup TlsRecordScripts
        \cup { H_VisionUdp \o ClientPayload(1) }

Scripts ==
    { h \o ClientPayload(k) : h \in HeaderCorpus \ VisionHeaders, k \in 0..MaxPayload }
        \cup VisionScripts

TargetScripts == { TargetPayload(k) : k \in 0..MaxTargetBytes }

\* tokio::net::lookup_host(...).next(): the first endpoint the resolver returns.
ResolvedEndpoint == [type |-> 1, bytes |-> <<10, 0, 0, 1>>]

OtherEndpoint == [addr |-> [type |-> 1, bytes |-> <<10, 0, 0, 9>>], port |-> 9]

NoEndpoint == [addr |-> NoAddress, port |-> 0]

\* The target address of a request: Address::to_socket_addr for IP literals, the
\* resolver's first answer for a domain.
TargetAddrOf(req) ==
    [addr |-> IF req.address.type = 2 THEN ResolvedEndpoint ELSE req.address,
     port |-> req.port]

\* The HTTP collaborator's answer starts with "HTTP".
HttpResponseBytes == <<72, 84, 84, 80>>

-----------------------------------------------------------------------------
(* The state after construction: a connection has just been accepted. *)

purev == << fn_arg, fn_ret >>
poolv == << pool, borrowers, conn_pool, conn_tasks, ws_manager, ws_calls >>
cfgv == << conn_tls, tls_config, script >>
cliv == << c_sent, c_read, c_eof, c_rst, client_rx >>
tgtv == << t_script, t_sent, t_read, t_eof, t_rst, target_rx >>
udpv == << udp_queue, udp_read, udp_err, udp_sent >>
reqv == << tls_stream, request, remaining_data, target_addr, vision_state >>
upv == << up_pc, up_buf, up_total, up_batch >>
downv == << down_pc, down_buf, down_src, down_total, down_batch >>
bytev == << total_upload_bytes, total_download_bytes >>
connv == << pc, result, guard, dec_tasks >>
sessv == << purev, cfgv, poolv, cliv, tgtv, udpv, reqv, upv, downv, bytev, connv, dialled >>

InitSession ==
    /\ conn_tls \in BOOLEAN
    /\ tls_config \in BOOLEAN
    /\ script \in Scripts
    /\ script \in TlsRecordScripts => conn_tls
    /\ c_sent = 0 /\ c_read = 0 /\ c_eof = FALSE /\ c_rst = FALSE
    /\ client_rx = << >>
    /\ t_script = << >> /\ t_sent = 0 /\ t_read = 0
    /\ t_eof = FALSE /\ t_rst = FALSE
    /\ target_rx = << >>
    /\ dialled = 0
    /\ udp_queue = << >> /\ udp_read = 0 /\ udp_err = FALSE /\ udp_sent = << >>
    /\ pc = "peek" /\ result = "none"
    /\ tls_stream = FALSE
    /\ request = NoRequest /\ remaining_data = << >> /\ target_addr = NoEndpoint
    /\ vision_state = "none"
    /\ guard = FALSE
    /\ up_pc = "idle" /\ up_buf = << >> /\ up_total = 0 /\ up_batch = 0
    /\ down_pc = "idle" /\ down_buf = << >> /\ down_src = NoEndpoint
    /\ down_total = 0 /\ down_batch = 0
    /\ total_upload_bytes = 0 /\ total_download_bytes = 0
    /\ dec_tasks = 0

\* Stats::new
InitStats ==
    /\ active_connections = 0
    /\ rejected_connections = 0

\* No connection pool is under observation.
NoConnPool == conn_pool = << >> /\ conn_tasks = << >>

\* No buffer pool is under observation.
NoBufferPool == pool = << >> /\ borrowers = << >>

\* No WebSocket manager is under observation.
NoWsManager == ws_manager = << >> /\ ws_calls = << >>

NoPool == NoBufferPool /\ NoConnPool /\ NoWsManager

\* No function is under evaluation on its own.
NoCall == fn_arg = << >> /\ fn_ret = << >> /\ NoPool

Init ==
    /\ InitSession
    /\ InitStats
    /\ sessions = << >>
    /\ NoCall

-----------------------------------------------------------------------------
(* The client and the network, as far as the server can observe them *)

Open == pc # "returned"

Avail == c_sent - c_read

\* The bytes a read of at most cap bytes returns now.
ReadLen(cap) == Min(Avail, cap)

ReadBytes(cap) == SubSeq(script, c_read + 1, c_read + ReadLen(cap))

\* A TLS client can send application data only once the handshake is done.
ClientSend ==
    /\ Open /\ ~c_eof /\ ~c_rst
    /\ conn_tls => tls_stream
    /\ \E k \in 1..(Len(script) - c_sent) : c_sent' = c_sent + k
    /\ UNCHANGED << purev, cfgv, poolv, c_read, c_eof, c_rst, client_rx, tgtv, udpv, reqv, upv,
                    downv, bytev, connv, dialled, active_connections,
                    rejected_connections, sessions >>

ClientClose ==
    /\ Open /\ ~c_eof /\ ~c_rst
    /\ c_eof' = TRUE
    /\ UNCHANGED << purev, cfgv, poolv, c_sent, c_read, c_rst, client_rx, tgtv, udpv, reqv, upv,
                    downv, bytev, connv, dialled, active_connections,
                    rejected_connections, sessions >>

ClientReset ==
    /\ Open /\ ~c_rst
    /\ c_rst' = TRUE
    /\ UNCHANGED << purev, cfgv, poolv, c_sent, c_read, c_eof, client_rx, tgtv, udpv, reqv, upv,
                    downv, bytev, connv, dialled, active_connections,
                    rejected_connections, sessions >>

-----------------------------------------------------------------------------
(* ConnectionGuard and Stats *)

\* Stats::increment_connections
increment_connections(n) == n + 1

\* Stats::decrement_connections
decrement_connections(n) == IF n > 0 THEN n - 1 ELSE n

\* Drop for ConnectionGuard: a live guard whose released flag is unset spawns one
\* task that decrements; d is the number of such tasks not yet run.
GuardDrop_Leaked(g, d) == d

GuardDrop(g, d) == IF g THEN d + 1 ELSE d

\* The handler returns (or unwinds): its locals, the guard among them, are dropped.
Return(res) ==
    /\ pc' = "returned"
    /\ result' = res
    /\ guard' = FALSE
    /\ dec_tasks' = GuardDrop(guard, dec_tasks)

\* The task spawned by Drop for ConnectionGuard
DecrementTask ==
    /\ dec_tasks > 0
    /\ dec_tasks' = dec_tasks - 1
    /\ active_connections' = decrement_connections(active_connections)
    /\ UNCHANGED << purev, cfgv, poolv, cliv, tgtv, udpv, reqv, upv, downv, bytev, pc, result,
                    guard, dialled, rejected_connections, sessions >>

-----------------------------------------------------------------------------
(* VlessServer::handle_connection: demultiplexing on the first bytes *)

\* The first byte on the wire: a TLS client opens with a handshake record.
FirstByte == IF conn_tls THEN 22 ELSE script[1]

FirstByteArrived == conn_tls \/ c_sent > 0

IsTlsHandshake_Never(first_byte) == FALSE

\* first_byte == 0x16
IsTlsHandshake(first_byte) == first_byte = 22

\* TcpStream::peek returns n bytes and leaves them in the socket.
PeekConsumed_LikeRead(n) == n
PeekConsumed(n) == 0

\* stream.peek(&mut [0u8; 1])
Peek ==
    /\ pc = "peek"
    /\ FirstByteArrived \/ c_eof \/ c_rst
    /\ IF c_rst \/ ~FirstByteArrived
       THEN Return("err") /\ UNCHANGED c_read
       ELSE \* c_read counts the bytes of script; on a TLS connection the
            \* peeked byte belongs to the handshake, not to script.
            /\ c_read' = c_read + (IF conn_tls THEN 0 ELSE PeekConsumed(1))
            /\ IF IsTlsHandshake(FirstByte)
               THEN IF tls_config
                    THEN pc' = "tls_accept" /\ UNCHANGED << result, guard, dec_tasks >>
                    ELSE Return("err")
               ELSE pc' = "peek_initial" /\ UNCHANGED << result, guard, dec_tasks >>
    /\ UNCHANGED << purev, cfgv, poolv, c_sent, c_eof, c_rst, client_rx, tgtv, udpv, reqv, upv, downv, bytev, dialled,
                    active_connections, rejected_connections, sessions >>

\* tls::accept_tls
TlsAccept ==
    /\ pc = "tls_accept"
    /\ \/ /\ conn_tls /\ ~c_rst /\ ~c_eof
          /\ tls_stream' = TRUE
          /\ pc' = "read_header"
          /\ UNCHANGED << result, guard, dec_tasks >>
       \/ /\ Return("err")
          /\ UNCHANGED tls_stream
    /\ UNCHANGED << purev, cfgv, poolv, cliv, tgtv, udpv, request, remaining_data, target_addr,
                    vision_state, upv, downv, bytev, dialled, active_connections,
                    rejected_connections, sessions >>

\* stream.peek(&mut initial_buf) and the HTTP test on what it saw
PeekInitial ==
    /\ pc = "peek_initial"
    /\ IF c_rst
       THEN Return("err") /\ UNCHANGED c_read
       ELSE /\ pc' = IF is_http_request(ReadBytes(PeekBufferSize))
                     THEN "http_read" ELSE "read_header"
            /\ c_read' = c_read + PeekConsumed(ReadLen(PeekBufferSize))
            /\ UNCHANGED << result, guard, dec_tasks >>
    /\ UNCHANGED << purev, cfgv, poolv, c_sent, c_eof, c_rst, client_rx, tgtv, udpv, reqv, upv, downv, bytev, dialled,
                    active_connections, rejected_connections, sessions >>

\* The HTTP branch: read the request and hand it to the HTTP collaborator.
HttpRead ==
    /\ pc = "http_read"
    /\ IF c_rst
       THEN Return("err") /\ UNCHANGED << c_read, client_rx >>
       ELSE /\ c_read' = c_read + ReadLen(PeekBufferSize)
            /\ client_rx' = WriteAll(client_rx, HttpResponseBytes)
            /\ Return("ok")
    /\ UNCHANGED << purev, cfgv, poolv, c_sent, c_eof, c_rst, tgtv, udpv, reqv, upv, downv, bytev,
                    dialled, active_connections, rejected_connections, sessions >>

-----------------------------------------------------------------------------
(* handle_connection_after_handshake / handle_tls_connection *)

\* config.users.contains(&request.uuid)
IsUser_Any(uuid) == TRUE

IsUser(uuid) == uuid \in users

\* The first read, the HTTP test, VlessRequest::decode and the UUID check.
ReadHeader ==
    /\ pc = "read_header"
    /\ Avail > 0 \/ c_eof \/ c_rst
    /\ IF c_rst \/ Avail = 0
       THEN /\ Return("err")
            /\ UNCHANGED << c_read, client_rx, request, remaining_data >>
       ELSE LET header_bytes == ReadBytes(HeaderBufferSize)
                d == VlessRequestDecode(header_bytes)
            IN  /\ c_read' = c_read + Len(header_bytes)
                /\ IF is_http_request(header_bytes)
                   THEN /\ client_rx' = WriteAll(client_rx, HttpResponseBytes)
                        /\ Return("ok")
                        /\ UNCHANGED << request, remaining_data >>
                   ELSE IF d.tag # "ok"
                   THEN /\ Return(d.tag)
                        /\ UNCHANGED << client_rx, request, remaining_data >>
                   ELSE IF ~IsUser(d.request.uuid)
                   THEN /\ Return("err")
                        /\ UNCHANGED << client_rx, request, remaining_data >>
                   ELSE /\ request' = d.request
                        /\ remaining_data' = d.remaining
                        /\ pc' = "guard_new"
                        /\ UNCHANGED << client_rx, result, guard, dec_tasks >>
    /\ UNCHANGED << purev, cfgv, poolv, c_sent, c_eof, c_rst, tgtv, udpv, tls_stream, target_addr,
                    vision_state, upv, downv, bytev, dialled, active_connections,
                    rejected_connections, sessions >>

\* ConnectionGuard::new
GuardNew ==
    /\ pc = "guard_new"
    /\ active_connections' = increment_connections(active_connections)
    /\ guard' = TRUE
    /\ pc' = "write_response"
    /\ UNCHANGED << purev, cfgv, poolv, cliv, tgtv, udpv, reqv, upv, downv, bytev, result,
                    dec_tasks, dialled, rejected_connections, sessions >>

\* The suspension point the handler reaches after the response: the match on
\* request.command and request.xtls_flow of handle_tls_connection (tls) and of
\* handle_connection_after_handshake (~tls). handle_tcp_proxy and the fallback
\* handle_tcp_proxy_with_vision are the same steps: "connect".
Dispatch_IgnoresTls(tls, flow, command) ==
    IF command = 1
    THEN IF flow = "None" THEN "connect" ELSE "vision_connect"
    ELSE IF command = 2 THEN "udp_bind" ELSE "returned"

Dispatch_MuxAsTcp(tls, flow, command) ==
    IF command = 1 \/ command = 3
    THEN IF flow = "None" THEN "connect"
         ELSE IF tls THEN "vision_connect" ELSE "connect"
    ELSE IF command = 2 THEN "udp_bind" ELSE "returned"

Dispatch(tls, flow, command) ==
    IF command = 1
    THEN IF flow = "None" THEN "connect"
         ELSE IF tls THEN "vision_connect" ELSE "connect"
    ELSE IF command = 2 THEN "udp_bind" ELSE "returned"

\* stream.write_all(&response.encode()) and the match on request.command
WriteResponse ==
    /\ pc = "write_response"
    /\ IF c_rst
       THEN Return("err") /\ UNCHANGED client_rx
       ELSE /\ client_rx' = WriteAll(client_rx, VlessResponseEncode(request.version))
            /\ IF Dispatch(tls_stream, request.xtls_flow, request.command) = "returned"
               THEN Return("err")
               ELSE /\ pc' = Dispatch(tls_stream, request.xtls_flow, request.command)
                    /\ UNCHANGED << result, guard, dec_tasks >>
    /\ UNCHANGED << purev, cfgv, poolv, c_sent, c_read, c_eof, c_rst, tgtv, udpv, reqv, upv,
                    downv, bytev, dialled, active_connections,
                    rejected_connections, sessions >>

-----------------------------------------------------------------------------
(* The TCP target, as far as the server can observe it *)

TcpSession ==
    /\ request.command = 1
    /\ pc \in {"initial_data", "vision_early", "vision_detect", "vision_forward", "join"}

TAvail == t_sent - t_read

TReadLen(cap) == Min(TAvail, cap)

TReadBytes(cap) == SubSeq(t_script, t_read + 1, t_read + TReadLen(cap))

TargetSend ==
    /\ TcpSession /\ ~t_eof /\ ~t_rst
    /\ \E k \in 1..(Len(t_script) - t_sent) : t_sent' = t_sent + k
    /\ UNCHANGED << purev, cfgv, poolv, cliv, t_script, t_read, t_eof, t_rst, target_rx, udpv, reqv,
                    upv, downv, bytev, connv, dialled, active_connections,
                    rejected_connections, sessions >>

TargetClose ==
    /\ TcpSession /\ ~t_eof /\ ~t_rst
    /\ t_eof' = TRUE
    /\ UNCHANGED << purev, cfgv, poolv, cliv, t_script, t_sent, t_read, t_rst, target_rx, udpv, reqv,
                    upv, downv, bytev, connv, dialled, active_connections,
                    rejected_connections, sessions >>

TargetReset ==
    /\ TcpSession /\ ~t_rst
    /\ t_rst' = TRUE
    /\ UNCHANGED << purev, cfgv, poolv, cliv, t_script, t_sent, t_read, t_eof, target_rx, udpv, reqv,
                    upv, downv, bytev, connv, dialled, active_connections,
                    rejected_connections, sessions >>

-----------------------------------------------------------------------------
(* handle_tcp_proxy and handle_bidirectional_transfer *)

\* Resolve the target and take a connection from the pool (a dial on a miss).
Connect ==
    /\ pc = "connect"
    /\ \/ /\ \E ts \in TargetScripts : t_script' = ts
          /\ target_addr' = TargetAddrOf(request)
          /\ dialled' = dialled + 1
          /\ pc' = "initial_data"
          /\ UNCHANGED << result, guard, dec_tasks >>
       \/ /\ \E attempted \in {0, 1} : dialled' = dialled + attempted
          /\ Return("err")
          /\ UNCHANGED << t_script, target_addr >>
    /\ UNCHANGED << purev, cfgv, poolv, cliv, t_sent, t_read, t_eof, t_rst, target_rx, udpv,
                    tls_stream, request, remaining_data, vision_state, upv, downv,
                    bytev, active_connections, rejected_connections, sessions >>

\* What the transfer writes to the target before the direction tasks start.
InitialWrite_Dropped(initial_data) == << >>

InitialWrite(initial_data) == initial_data

\* The head of handle_bidirectional_transfer: write initial_data, account for it,
\* split the streams and spawn upload_task and download_task.
InitialData ==
    /\ pc = "initial_data"
    /\ IF Len(remaining_data) > 0 /\ t_rst
       THEN /\ Return("err")
            /\ UNCHANGED << target_rx, total_upload_bytes, up_pc, down_pc >>
       ELSE /\ target_rx' = WriteAll(target_rx, InitialWrite(remaining_data))
            /\ total_upload_bytes' = total_upload_bytes + Len(remaining_data)
            /\ up_pc' = "read"
            /\ down_pc' = "read"
            /\ pc' = "join"
            /\ UNCHANGED << result, guard, dec_tasks >>
    /\ UNCHANGED << purev, cfgv, poolv, cliv, t_script, t_sent, t_read, t_eof, t_rst, udpv, reqv,
                    up_buf, up_total, up_batch, down_buf, down_src, down_total,
                    down_batch, total_download_bytes, dialled, active_connections,
                    rejected_connections, sessions >>

\* The batch counter after a successful write: flushed at batch_size.
BatchAfter_Keep(batch) == batch
BatchAfter(batch) == IF batch >= StatsBatchSize THEN 0 ELSE batch

\* What a successful write adds to the accounting sink.
BatchFlush(batch) == IF batch >= StatsBatchSize THEN batch ELSE 0

\* upload_task: client_read.read(&mut buf)
UpRead ==
    /\ request.command = 1 /\ up_pc = "read"
    /\ Avail > 0 \/ c_eof \/ c_rst
    /\ IF c_rst \/ Avail = 0
       THEN /\ up_pc' = "flush"
            /\ UNCHANGED << c_read, up_buf, up_total, up_batch >>
       ELSE /\ up_buf' = ReadBytes(RelayBufferSize)
            /\ c_read' = c_read + ReadLen(RelayBufferSize)
            /\ up_total' = up_total + ReadLen(RelayBufferSize)
            /\ up_batch' = up_batch + ReadLen(RelayBufferSize)
            /\ up_pc' = "write"
    /\ UNCHANGED << purev, cfgv, poolv, c_sent, c_eof, c_rst, client_rx, tgtv, udpv, reqv, downv,
                    bytev, connv, dialled, active_connections, rejected_connections,
                    sessions >>

\* upload_task: target_write.write_all(&buf[..n]) and the batched statistics
UpWrite ==
    /\ request.command = 1 /\ up_pc = "write"
    /\ IF t_rst
       THEN /\ up_pc' = "flush"
            /\ UNCHANGED << target_rx, up_batch, total_upload_bytes >>
       ELSE /\ target_rx' = WriteAll(target_rx, up_buf)
            /\ total_upload_bytes' = total_upload_bytes + BatchFlush(up_batch)
            /\ up_batch' = BatchAfter(up_batch)
            /\ up_pc' = "read"
    /\ up_buf' = << >>
    /\ UNCHANGED << purev, cfgv, poolv, cliv, t_script, t_sent, t_read, t_eof, t_rst, udpv, reqv,
                    up_total, downv, total_download_bytes, connv, dialled,
                    active_connections, rejected_connections, sessions >>

\* upload_task: the remainder of the batch, then the task ends
UpFlush ==
    /\ request.command = 1 /\ up_pc = "flush"
    /\ total_upload_bytes' = total_upload_bytes + up_batch
    /\ up_batch' = 0
    /\ up_pc' = "done"
    /\ UNCHANGED << purev, cfgv, poolv, cliv, tgtv, udpv, reqv, up_buf, up_total, downv,
                    total_download_bytes, connv, dialled, active_connections,
                    rejected_connections, sessions >>

\* download_task: target_read.read(&mut buf)
DownRead ==
    /\ request.command = 1 /\ down_pc = "read"
    /\ TAvail > 0 \/ t_eof \/ t_rst
    /\ IF t_rst \/ TAvail = 0
       THEN /\ down_pc' = "flush"
            /\ UNCHANGED << t_read, down_buf, down_total, down_batch >>
       ELSE /\ down_buf' = TReadBytes(RelayBufferSize)
            /\ t_read' = t_read + TReadLen(RelayBufferSize)
            /\ down_total' = down_total + TReadLen(RelayBufferSize)
            /\ down_batch' = down_batch + TReadLen(RelayBufferSize)
            /\ down_pc' = "write"
    /\ UNCHANGED << purev, cfgv, poolv, cliv, t_script, t_sent, t_eof, t_rst, target_rx, udpv, reqv,
                    upv, down_src, bytev, connv, dialled, active_connections,
                    rejected_connections, sessions >>

\* download_task: client_write.write_all(&buf[..n]) and the batched statistics
DownWrite ==
    /\ request.command = 1 /\ down_pc = "write"
    /\ IF c_rst
       THEN /\ down_pc' = "flush"
            /\ UNCHANGED << client_rx, down_batch, total_download_bytes >>
       ELSE /\ client_rx' = WriteAll(client_rx, down_buf)
            /\ total_download_bytes' = total_download_bytes + BatchFlush(down_batch)
            /\ down_batch' = BatchAfter(down_batch)
            /\ down_pc' = "read"
    /\ down_buf' = << >>
    /\ UNCHANGED << purev, cfgv, poolv, c_sent, c_read, c_eof, c_rst, tgtv, udpv, reqv, upv,
                    down_src, down_total, total_upload_bytes, connv, dialled,
                    active_connections, rejected_connections, sessions >>

\* download_task: the remainder of the batch, then the task ends
DownFlush ==
    /\ request.command = 1 /\ down_pc = "flush"
    /\ total_download_bytes' = total_download_bytes + down_batch
    /\ down_batch' = 0
    /\ down_pc' = "done"
    /\ UNCHANGED << purev, cfgv, poolv, cliv, tgtv, udpv, reqv, upv, down_buf, down_src, down_total,
                    total_upload_bytes, connv, dialled, active_connections,
                    rejected_connections, sessions >>

\* tokio::join!(upload_task, download_task): the handler resumes once both ended.
JoinReady(up, down) == up = "done" /\ down = "done"

Join ==
    /\ pc = "join"
    /\ JoinReady(up_pc, down_pc)
    /\ Return("ok")
    /\ UNCHANGED << purev, cfgv, poolv, cliv, tgtv, udpv, reqv, upv, downv, bytev, dialled,
                    active_connections, rejected_connections, sessions >>

-----------------------------------------------------------------------------
(* xtls.rs: the Vision flow on a TLS-terminated TCP session *)

\* TlsContentType::is_tls_record
is_tls_record(b) == b >= 20 /\ b <= 23

\* detect_tls_content
detect_tls_content_NoLengthLimit(data) ==
    IF Len(data) = 0 THEN FALSE
    ELSE IF ~is_tls_record(data[1]) THEN FALSE
    ELSE IF Len(data) < 5 THEN FALSE
    ELSE IF data[2] # 3 THEN FALSE
    ELSE IF data[3] < 1 \/ data[3] > 4 THEN FALSE
    ELSE Len(data) >= 5 + data[4] * 256 + data[5]

detect_tls_content_ExactLength(data) ==
    IF Len(data) = 0 THEN FALSE
    ELSE IF ~is_tls_record(data[1]) THEN FALSE
    ELSE IF Len(data) < 5 THEN FALSE
    ELSE IF data[2] # 3 THEN FALSE
    ELSE IF data[3] < 1 \/ data[3] > 4 THEN FALSE
    ELSE LET length == data[4] * 256 + data[5] IN
         IF length > MaxTlsRecordLength THEN FALSE
         ELSE Len(data) = 5 + length

detect_tls_content(data) ==
    IF Len(data) = 0 THEN FALSE
    ELSE IF ~is_tls_record(data[1]) THEN FALSE
    ELSE IF Len(data) < 5 THEN FALSE
    ELSE IF data[2] # 3 THEN FALSE
    ELSE IF data[3] < 1 \/ data[3] > 4 THEN FALSE
    ELSE LET length == data[4] * 256 + data[5] IN
         IF length > MaxTlsRecordLength THEN FALSE
         ELSE IF Len(data) < 5 + length THEN FALSE
         ELSE TRUE

VisionSession == vision_state # "none"

\* handle_tcp_proxy_with_vision_tls: resolve, take a connection, then
\* handle_vision_proxy creates the VisionProcessor.
VisionConnect ==
    /\ pc = "vision_connect"
    /\ \/ /\ \E ts \in TargetScripts : t_script' = ts
          /\ target_addr' = TargetAddrOf(request)
          /\ dialled' = dialled + 1
          /\ vision_state' = "EarlyData"
          /\ pc' = "vision_early"
          /\ UNCHANGED << result, guard, dec_tasks >>
       \/ /\ \E attempted \in {0, 1} : dialled' = dialled + attempted
          /\ Return("err")
          /\ UNCHANGED << t_script, target_addr, vision_state >>
    /\ UNCHANGED << purev, cfgv, poolv, cliv, t_sent, t_read, t_eof, t_rst, target_rx, udpv,
                    tls_stream, request, remaining_data, upv, downv, bytev,
                    active_connections, rejected_connections, sessions >>

\* process_connection, step 1: initial_data goes to the target and is accounted.
VisionEarlyData ==
    /\ pc = "vision_early"
    /\ IF Len(remaining_data) > 0 /\ t_rst
       THEN /\ Return("err")
            /\ UNCHANGED << target_rx, total_upload_bytes >>
       ELSE /\ target_rx' = WriteAll(target_rx, remaining_data)
            /\ total_upload_bytes' = total_upload_bytes + Len(remaining_data)
            /\ pc' = "vision_detect"
            /\ UNCHANGED << result, guard, dec_tasks >>
    /\ UNCHANGED << purev, cfgv, poolv, cliv, t_script, t_sent, t_read, t_eof, t_rst, udpv, reqv,
                    upv, downv, total_download_bytes, dialled, active_connections,
                    rejected_connections, sessions >>

\* &detect_buffer[..n]
DetectData_RecordHeader(buffer, n) == Take(buffer, Min(n, 5))

DetectData(buffer, n) == Take(buffer, n)

\* process_connection: self.state = VisionState::Spliced if is_tls, else
\* self.state = VisionState::Normal.
VisionStateAfter_AlwaysSpliced(is_tls) == "Spliced"
VisionStateAfter(is_tls) == IF is_tls THEN "Spliced" ELSE "Normal"

\* process_connection, steps 2 and 3: one read from the client, then the TLS test.
VisionDetect ==
    /\ pc = "vision_detect"
    /\ Avail > 0 \/ c_eof \/ c_rst
    /\ IF c_rst
       THEN /\ Return("err")
            /\ UNCHANGED << c_read, up_buf, vision_state >>
       ELSE IF Avail = 0
       THEN /\ Return("ok")
            /\ UNCHANGED << c_read, up_buf, vision_state >>
       ELSE LET n == ReadLen(DetectBufferSize)
                detect_data == DetectData(ReadBytes(DetectBufferSize), n)
            IN  /\ c_read' = c_read + n
                /\ up_buf' = detect_data
                /\ vision_state' = VisionStateAfter(detect_tls_content(detect_data))
                /\ pc' = "vision_forward"
                /\ UNCHANGED << result, guard, dec_tasks >>
    /\ UNCHANGED << purev, cfgv, poolv, c_sent, c_eof, c_rst, client_rx, tgtv, udpv, tls_stream,
                    request, remaining_data, target_addr, up_pc, up_total, up_batch,
                    downv, bytev, dialled, active_connections, rejected_connections,
                    sessions >>

\* process_connection: detect_data goes to the target (accounted only in Normal
\* mode), then handle_splice_forwarding / handle_encrypted_forwarding spawn the
\* two transfer tasks.
VisionForward ==
    /\ pc = "vision_forward"
    /\ IF t_rst
       THEN /\ Return("err")
            /\ UNCHANGED << target_rx, total_upload_bytes, up_pc, down_pc >>
       ELSE /\ target_rx' = WriteAll(target_rx, up_buf)
            /\ total_upload_bytes' =
                  total_upload_bytes + (IF vision_state = "Normal" THEN Len(up_buf) ELSE 0)
            /\ up_pc' = "vread"
            /\ down_pc' = "vread"
            /\ pc' = "join"
            /\ UNCHANGED << result, guard, dec_tasks >>
    /\ up_buf' = << >>
    /\ UNCHANGED << purev, cfgv, poolv, cliv, t_script, t_sent, t_read, t_eof, t_rst, udpv, reqv,
                    up_total, up_batch, down_buf, down_src, down_total, down_batch,
                    total_download_bytes, dialled, active_connections,
                    rejected_connections, sessions >>

\* BUFFER_SIZE and BATCH_SIZE of splice_transfer (Spliced) and of
\* encrypted_transfer (Normal)
TransferBufferSize(state) ==
    IF state = "Spliced" THEN SpliceBufferSize ELSE EncryptedBufferSize

TransferBatchSize(state) ==
    IF state = "Spliced" THEN SpliceBatchSize ELSE EncryptedBatchSize

\* c2r_task: reader.read(&mut buffer)
VisionUpRead ==
    /\ VisionSession /\ up_pc = "vread"
    /\ Avail > 0 \/ c_eof \/ c_rst
    /\ IF c_rst \/ Avail = 0
       THEN /\ up_pc' = "vflush"
            /\ UNCHANGED << c_read, up_buf >>
       ELSE /\ up_buf' = ReadBytes(TransferBufferSize(vision_state))
            /\ c_read' = c_read + ReadLen(TransferBufferSize(vision_state))
            /\ up_pc' = "vwrite"
    /\ UNCHANGED << purev, cfgv, poolv, c_sent, c_eof, c_rst, client_rx, tgtv, udpv, reqv,
                    up_total, up_batch, downv, bytev, connv, dialled,
                    active_connections, rejected_connections, sessions >>

\* c2r_task: writer.write_all(&buffer[..n]), then the counters
VisionUpWrite ==
    /\ VisionSession /\ up_pc = "vwrite"
    /\ IF t_rst
       THEN /\ up_pc' = "vflush"
            /\ UNCHANGED << target_rx, up_total, up_batch, total_upload_bytes >>
       ELSE LET batch == up_batch + Len(up_buf)
                full == batch >= TransferBatchSize(vision_state)
            IN  /\ target_rx' = WriteAll(target_rx, up_buf)
                /\ up_total' = up_total + Len(up_buf)
                /\ total_upload_bytes' = total_upload_bytes + (IF full THEN batch ELSE 0)
                /\ up_batch' = IF full THEN 0 ELSE batch
                /\ up_pc' = "vread"
    /\ up_buf' = << >>
    /\ UNCHANGED << purev, cfgv, poolv, cliv, t_script, t_sent, t_read, t_eof, t_rst, udpv, reqv,
                    downv, total_download_bytes, connv, dialled,
                    active_connections, rejected_connections, sessions >>

\* c2r_task: the remainder of the batch, then the task ends
VisionUpFlush ==
    /\ VisionSession /\ up_pc = "vflush"
    /\ total_upload_bytes' = total_upload_bytes + up_batch
    /\ up_batch' = 0
    /\ up_pc' = "done"
    /\ UNCHANGED << purev, cfgv, poolv, cliv, tgtv, udpv, reqv, up_buf, up_total, downv,
                    total_download_bytes, connv, dialled, active_connections,
                    rejected_connections, sessions >>

\* r2c_task: reader.read(&mut buffer)
VisionDownRead ==
    /\ VisionSession /\ down_pc = "vread"
    /\ TAvail > 0 \/ t_eof \/ t_rst
    /\ IF t_rst \/ TAvail = 0
       THEN /\ down_pc' = "vflush"
            /\ UNCHANGED << t_read, down_buf >>
       ELSE /\ down_buf' = TReadBytes(TransferBufferSize(vision_state))
            /\ t_read' = t_read + TReadLen(TransferBufferSize(vision_state))
            /\ down_pc' = "vwrite"
    /\ UNCHANGED << purev, cfgv, poolv, cliv, t_script, t_sent, t_eof, t_rst, target_rx, udpv,
                    reqv, upv, down_src, down_total, down_batch, bytev, connv, dialled,
                    active_connections, rejected_connections, sessions >>

\* r2c_task: writer.write_all(&buffer[..n]), then the counters
VisionDownWrite ==
    /\ VisionSession /\ down_pc = "vwrite"
    /\ IF c_rst
       THEN /\ down_pc' = "vflush"
            /\ UNCHANGED << client_rx, down_total, down_batch, total_download_bytes >>
       ELSE LET batch == down_batch + Len(down_buf)
                full == batch >= TransferBatchSize(vision_state)
            IN  /\ client_rx' = WriteAll(client_rx, down_buf)
                /\ down_total' = down_total + Len(down_buf)
                /\ total_download_bytes' =
                      total_download_bytes + (IF full THEN batch ELSE 0)
                /\ down_batch' = IF full THEN 0 ELSE batch
                /\ down_pc' = "vread"
    /\ down_buf' = << >>
    /\ UNCHANGED << purev, cfgv, poolv, c_sent, c_read, c_eof, c_rst, tgtv, udpv, reqv, upv,
                    down_src, total_upload_bytes, connv, dialled,
                    active_connections, rejected_connections, sessions >>

\* r2c_task: the remainder of the batch, then the task ends
VisionDownFlush ==
    /\ VisionSession /\ down_pc = "vflush"
    /\ total_download_bytes' = total_download_bytes + down_batch
    /\ down_batch' = 0
    /\ down_pc' = "done"
    /\ UNCHANGED << purev, cfgv, poolv, cliv, tgtv, udpv, reqv, upv, down_buf, down_src,
                    down_total, total_upload_bytes, connv, dialled,
                    active_connections, rejected_connections, sessions >>

-----------------------------------------------------------------------------
(* handle_udp_proxy: the UDP-over-TCP session *)

UdpSession == request.command = 2 /\ pc = "join"

DatagramSources == { target_addr, OtherEndpoint }

\* The n-th datagram to arrive carries two bytes no other datagram carries.
DatagramData(n) == << 210 + n, 230 + n >>

\* A datagram reaches the session's socket, from the destination or from elsewhere.
UdpArrive ==
    /\ UdpSession /\ Len(udp_queue) < MaxDatagrams
    /\ \E src \in DatagramSources :
          udp_queue' = Append(udp_queue,
                              [src |-> src, data |-> DatagramData(Len(udp_queue) + 1)])
    /\ UNCHANGED << purev, cfgv, poolv, cliv, tgtv, udp_read, udp_err, udp_sent, reqv, upv, downv, bytev,
                    connv, dialled, active_connections, rejected_connections,
                    sessions >>

\* The socket starts to fail (for instance a local interface going down).
UdpError ==
    /\ UdpSession /\ ~udp_err
    /\ udp_err' = TRUE
    /\ UNCHANGED << purev, cfgv, poolv, cliv, tgtv, udp_queue, udp_read, udp_sent, reqv, upv,
                    downv, bytev, connv, dialled, active_connections,
                    rejected_connections, sessions >>

\* Resolve the destination, bind the socket, spawn the two tasks.
UdpBind ==
    /\ pc = "udp_bind"
    /\ \/ /\ target_addr' = TargetAddrOf(request)
          /\ dialled' = dialled + 1
          /\ up_pc' = "read"
          /\ down_pc' = "read"
          /\ pc' = "join"
          /\ UNCHANGED << result, guard, dec_tasks >>
       \/ /\ Return("err")
          /\ UNCHANGED << target_addr, dialled, up_pc, down_pc >>
    /\ UNCHANGED << purev, cfgv, poolv, cliv, tgtv, udpv, tls_stream, request, remaining_data,
                    vision_state, up_buf, up_total, up_batch, down_buf, down_src, down_total,
                    down_batch, bytev, active_connections, rejected_connections,
                    sessions >>

\* client_to_target: timeout(udp_timeout, client_read.read(buffer)) returned a read
UdpUpRead ==
    /\ request.command = 2 /\ up_pc = "read"
    /\ Avail > 0 \/ c_eof \/ c_rst
    /\ IF c_rst \/ Avail = 0
       THEN /\ up_pc' = "flush"
            /\ UNCHANGED << c_read, up_buf, up_total, up_batch >>
       ELSE /\ up_buf' = ReadBytes(RelayBufferSize)
            /\ c_read' = c_read + ReadLen(RelayBufferSize)
            /\ up_total' = up_total + ReadLen(RelayBufferSize)
            /\ up_batch' = up_batch + ReadLen(RelayBufferSize)
            /\ up_pc' = "write"
    /\ UNCHANGED << purev, cfgv, poolv, c_sent, c_eof, c_rst, client_rx, tgtv, udpv, reqv, downv,
                    bytev, connv, dialled, active_connections, rejected_connections,
                    sessions >>

\* client_to_target: the read saw nothing for udp_timeout seconds
UdpUpTimeout ==
    /\ request.command = 2 /\ up_pc = "read"
    /\ Avail = 0 /\ ~c_eof /\ ~c_rst
    /\ up_pc' = "flush"
    /\ UNCHANGED << purev, cfgv, poolv, cliv, tgtv, udpv, reqv, up_buf, up_total, up_batch, downv,
                    bytev, connv, dialled, active_connections, rejected_connections,
                    sessions >>

\* The datagram one read becomes.
Datagram_Truncated(dst, data) == [dst |-> dst, data |-> Take(data, 1)]

Datagram(dst, data) == [dst |-> dst, data |-> data]

\* client_to_target: udp_socket.send_to(&buffer[..n], target_addr)
UdpUpSend ==
    /\ request.command = 2 /\ up_pc = "write"
    /\ IF udp_err
       THEN /\ up_pc' = "flush"
            /\ UNCHANGED << udp_sent, up_batch, total_upload_bytes >>
       ELSE /\ udp_sent' = Append(udp_sent, Datagram(target_addr, up_buf))
            /\ total_upload_bytes' = total_upload_bytes + BatchFlush(up_batch)
            /\ up_batch' = BatchAfter(up_batch)
            /\ up_pc' = "read"
    /\ up_buf' = << >>
    /\ UNCHANGED << purev, cfgv, poolv, cliv, tgtv, udp_queue, udp_read, udp_err, reqv,
                    up_total, downv, total_download_bytes, connv, dialled,
                    active_connections, rejected_connections, sessions >>

\* client_to_target: the remainder of the batch, then the task ends
UdpUpFlush ==
    /\ request.command = 2 /\ up_pc = "flush"
    /\ total_upload_bytes' = total_upload_bytes + up_batch
    /\ up_batch' = 0
    /\ up_pc' = "done"
    /\ UNCHANGED << purev, cfgv, poolv, cliv, tgtv, udpv, reqv, up_buf, up_total, downv,
                    total_download_bytes, connv, dialled, active_connections,
                    rejected_connections, sessions >>

\* The source filter of target_to_client.
FromTarget_Any(src, dst) == TRUE

FromTarget(src, dst) == src = dst

\* target_to_client: udp_socket.recv_from(buffer) and the source filter
UdpDownRecv ==
    /\ request.command = 2 /\ down_pc = "read"
    /\ udp_read < Len(udp_queue) \/ udp_err
    /\ IF udp_read = Len(udp_queue)
       THEN /\ down_pc' = "flush"
            /\ UNCHANGED << udp_read, down_buf, down_src, down_total, down_batch >>
       ELSE LET d == udp_queue[udp_read + 1] IN
            /\ udp_read' = udp_read + 1
            /\ IF FromTarget(d.src, target_addr)
               THEN /\ down_buf' = d.data
                    /\ down_src' = d.src
                    /\ down_total' = down_total + Len(d.data)
                    /\ down_batch' = down_batch + Len(d.data)
                    /\ down_pc' = "write"
               ELSE UNCHANGED << down_pc, down_buf, down_src, down_total, down_batch >>
    /\ UNCHANGED << purev, cfgv, poolv, cliv, tgtv, udp_queue, udp_err, udp_sent, reqv, upv,
                    bytev, connv, dialled, active_connections, rejected_connections,
                    sessions >>

\* target_to_client: client_write.write_all(&buffer[..n]) and the batched statistics
UdpDownWrite ==
    /\ request.command = 2 /\ down_pc = "write"
    /\ IF c_rst
       THEN /\ down_pc' = "flush"
            /\ UNCHANGED << client_rx, down_batch, total_download_bytes >>
       ELSE /\ client_rx' = WriteAll(client_rx, down_buf)
            /\ total_download_bytes' = total_download_bytes + BatchFlush(down_batch)
            /\ down_batch' = BatchAfter(down_batch)
            /\ down_pc' = "read"
    /\ down_buf' = << >>
    /\ UNCHANGED << purev, cfgv, poolv, c_sent, c_read, c_eof, c_rst, tgtv, udpv, reqv, upv,
                    down_src, down_total, total_upload_bytes, connv, dialled,
                    active_connections, rejected_connections, sessions >>

\* target_to_client: the remainder of the batch, then the task ends
UdpDownFlush ==
    /\ request.command = 2 /\ down_pc = "flush"
    /\ total_download_bytes' = total_download_bytes + down_batch
    /\ down_batch' = 0
    /\ down_pc' = "done"
    /\ UNCHANGED << purev, cfgv, poolv, cliv, tgtv, udpv, reqv, upv, down_buf, down_src, down_total,
                    total_upload_bytes, connv, dialled, active_connections,
                    rejected_connections, sessions >>

-----------------------------------------------------------------------------
(* One connection *)

Next ==
    \/ ClientSend \/ ClientClose \/ ClientReset
    \/ TargetSend \/ TargetClose \/ TargetReset
    \/ UdpArrive \/ UdpError
    \/ Peek \/ TlsAccept \/ PeekInitial \/ HttpRead
    \/ ReadHeader \/ GuardNew \/ WriteResponse
    \/ Connect \/ InitialData
    \/ UpRead \/ UpWrite \/ UpFlush
    \/ DownRead \/ DownWrite \/ DownFlush
    \/ UdpBind
    \/ UdpUpRead \/ UdpUpTimeout \/ UdpUpSend \/ UdpUpFlush
    \/ UdpDownRecv \/ UdpDownWrite \/ UdpDownFlush
    \/ Join
    \/ VisionConnect \/ VisionEarlyData \/ VisionDetect \/ VisionForward
    \/ VisionUpRead \/ VisionUpWrite \/ VisionUpFlush
    \/ VisionDownRead \/ VisionDownWrite \/ VisionDownFlush
    \/ DecrementTask

Spec == Init /\ [][Next]_vars

-----------------------------------------------------------------------------
(* Several connections: VlessServer::run and the life cycle of each handler.   *)
(* A handler is "handshake" until ConnectionGuard::new, "active" while it holds *)
(* the guard, and "ended" once it has returned.                                 *)

NewSession == [phase |-> "handshake", guard |-> FALSE, result |-> "none"]

\* The accept loop of run(): every accepted stream gets a spawned handler.
Accept ==
    /\ Len(sessions) < MaxSessions
    /\ sessions' = Append(sessions, NewSession)
    /\ UNCHANGED << sessv, active_connections, rejected_connections >>

\* A handler ends before authentication: EOF, TLS failure, HTTP, bad header, bad UUID.
SessionRefuse(i, res) ==
    /\ sessions[i].phase = "handshake"
    /\ sessions' = [sessions EXCEPT ![i].phase = "ended", ![i].result = res]
    /\ UNCHANGED << sessv, active_connections, rejected_connections >>

\* A handler authenticates its request: ConnectionGuard::new.
SessionGuardNew(i) ==
    /\ sessions[i].phase = "handshake"
    /\ sessions' = [sessions EXCEPT ![i].phase = "active", ![i].guard = TRUE]
    /\ active_connections' = increment_connections(active_connections)
    /\ UNCHANGED << sessv, rejected_connections >>

\* A handler that holds the guard returns, by whatever path.
SessionReturn(i, res) ==
    /\ sessions[i].phase = "active"
    /\ sessions' = [sessions EXCEPT ![i].phase = "ended", ![i].guard = FALSE,
                                     ![i].result = res]
    /\ dec_tasks' = GuardDrop(sessions[i].guard, dec_tasks)
    /\ UNCHANGED << purev, cfgv, poolv, cliv, tgtv, udpv, reqv, upv, downv, bytev, pc, result,
                    guard, dialled, active_connections, rejected_connections >>

\* In SpecGov the byte-exact connection is left out: its variables never change.
NoSession ==
    /\ conn_tls = FALSE /\ tls_config = FALSE /\ script = << >>
    /\ c_sent = 0 /\ c_read = 0 /\ c_eof = FALSE /\ c_rst = FALSE
    /\ client_rx = << >>
    /\ t_script = << >> /\ t_sent = 0 /\ t_read = 0
    /\ t_eof = FALSE /\ t_rst = FALSE
    /\ target_rx = << >>
    /\ dialled = 0
    /\ udp_queue = << >> /\ udp_read = 0 /\ udp_err = FALSE /\ udp_sent = << >>
    /\ pc = "none" /\ result = "none"
    /\ tls_stream = FALSE
    /\ request = NoRequest /\ remaining_data = << >> /\ target_addr = NoEndpoint
    /\ vision_state = "none"
    /\ guard = FALSE
    /\ up_pc = "idle" /\ up_buf = << >> /\ up_total = 0 /\ up_batch = 0
    /\ down_pc = "idle" /\ down_buf = << >> /\ down_src = NoEndpoint
    /\ down_total = 0 /\ down_batch = 0
    /\ total_upload_bytes = 0 /\ total_download_bytes = 0
    /\ dec_tasks = 0

InitGov ==
    /\ NoSession
    /\ InitStats
    /\ sessions = << >>
    /\ NoCall

NextGov ==
    \/ Accept
    \/ \E i \in 1..Len(sessions), res \in {"ok", "err", "panic"} : SessionRefuse(i, res)
    \/ \E i \in 1..Len(sessions) : SessionGuardNew(i)
    \/ \E i \in 1..Len(sessions), res \in {"ok", "err"} : SessionReturn(i, res)
    \/ DecrementTask

SpecGov == InitGov /\ [][NextGov]_vars

-----------------------------------------------------------------------------
(* detect_tls_content as a function of the chunk it is given *)

\* Record headers around every boundary the function tests.
DetectHeaders ==
    { << t, major, minor, hi, lo >> :
        t \in {19, 20, 22, 23, 24}, major \in {2, 3, 4}, minor \in {0, 1, 4, 5},
        hi \in {0}, lo \in 0..MaxShortRecord }

\* Headers that announce the largest accepted length and the one above it.
LongHeaders ==
    { << t, 3, 3, 64, lo >> : t \in {19, 23}, lo \in {0, 1} }

RecordLength(h) == h[4] * 256 + h[5]

\* A header with its whole body, and every truncation and a one-byte overrun.
DetectInputs ==
    { Take(h \o Fill(RecordLength(h) + 1, 7), Min(k, 5 + RecordLength(h) + 1)) :
        h \in DetectHeaders, k \in 0..(5 + MaxShortRecord + 1) }
    \cup { h \o Fill(RecordLength(h) - d, 7) : h \in LongHeaders, d \in {0, 1} }

InitDetect ==
    /\ NoSession
    /\ InitStats
    /\ sessions = << >>
    /\ fn_arg \in DetectInputs
    /\ fn_ret = << >>
    /\ NoPool

\* let is_tls = detect_tls_content(detect_data)
DetectCall ==
    /\ fn_ret = << >>
    /\ fn_ret' = << detect_tls_content(fn_arg) >>
    /\ UNCHANGED << fn_arg, cfgv, poolv, cliv, tgtv, udpv, reqv, upv, downv, bytev, connv,
                    dialled, active_connections, rejected_connections, sessions >>

NextDetect == DetectCall

SpecDetect == InitDetect /\ [][NextDetect]_vars

-----------------------------------------------------------------------------
(* The HTTP branch of handle_connection: WebSocket upgrade or HTTP response *)

\* u8::to_ascii_lowercase / to_ascii_uppercase on each byte of a header value
ToLower(s) == [i \in 1..Len(s) |-> IF s[i] >= 65 /\ s[i] <= 90 THEN s[i] + 32 ELSE s[i]]

ToUpper(s) == [i \in 1..Len(s) |-> IF s[i] >= 97 /\ s[i] <= 122 THEN s[i] - 32 ELSE s[i]]

Str_GET == <<71, 69, 84>>    \* "GET"
Str_POST == <<80, 79, 83, 84>>    \* "POST"
Str_websocket == <<119, 101, 98, 115, 111, 99, 107, 101, 116>>    \* "websocket"
Str_WebSocket == <<87, 101, 98, 83, 111, 99, 107, 101, 116>>    \* "WebSocket"
Str_h2c == <<104, 50, 99>>    \* "h2c"
Str_upgrade == <<117, 112, 103, 114, 97, 100, 101>>    \* "upgrade"
Str_Upgrade == <<85, 112, 103, 114, 97, 100, 101>>    \* "Upgrade"
Str_KeepAliveUpgrade == <<107, 101, 101, 112, 45, 97, 108, 105, 118, 101, 44, 32, 85, 112, 103, 114, 97, 100, 101>>    \* "keep-alive, Upgrade"
Str_close == <<99, 108, 111, 115, 101>>    \* "close"
Path_ws == <<47, 119, 115>>    \* "/ws"
Path_api_ws == <<47, 97, 112, 105, 47, 119, 115>>    \* "/api/ws"
Path_ws2 == <<47, 47, 119, 115>>    \* "//ws"
Path_vless == <<47, 118, 108, 101, 115, 115>>    \* "/vless"

\* A parsed HttpRequest, as far as the branch looks at it. An absent header has
\* the empty value; origin tells how is_allowed_origin answers for the Origin
\* header, if there is one; ws_path is the configured WebSocket path.
WsRequests ==
    [ method : {Str_GET, Str_POST},
      path : {Path_ws, Path_api_ws, Path_ws2, Path_vless},
      upgrade : {<< >>, Str_websocket, Str_WebSocket, Str_h2c},
      connection : {<< >>, Str_Upgrade, Str_KeepAliveUpgrade, Str_close},
      has_key : BOOLEAN,
      origin : {"none", "allowed", "disallowed"},
      ws_path : {Path_ws, Path_vless} ]

\* ws::is_websocket_upgrade
is_websocket_upgrade(req) ==
    IF ToUpper(req.method) # Str_GET THEN FALSE
    ELSE IF ToLower(req.upgrade) # Str_websocket THEN FALSE
    ELSE IF ~(Contains(ToLower(req.connection), Str_upgrade) \/ req.connection = Str_Upgrade)
    THEN FALSE
    ELSE IF ~(req.path = Path_api_ws \/ req.path = Path_ws) THEN FALSE
    ELSE IF req.origin = "disallowed" THEN FALSE
    ELSE TRUE

\* handle_connection on a parsed request: handle_websocket_connection fails in
\* extract_websocket_key when there is no Sec-WebSocket-Key line and otherwise
\* answers 101; every other request gets handle_http_request's response.
HttpBranch(req) ==
    IF is_websocket_upgrade(req)
    THEN IF req.has_key THEN "upgrade" ELSE "error"
    ELSE "http_response"

InitWs ==
    /\ NoSession
    /\ InitStats
    /\ sessions = << >>
    /\ fn_arg \in WsRequests
    /\ fn_ret = << >>
    /\ NoPool

WsCall ==
    /\ fn_ret = << >>
    /\ fn_ret' = << HttpBranch(fn_arg) >>
    /\ UNCHANGED << fn_arg, cfgv, poolv, cliv, tgtv, udpv, reqv, upv, downv, bytev, connv,
                    dialled, active_connections, rejected_connections, sessions >>

NextWs == WsCall

SpecWs == InitWs /\ [][NextWs]_vars

-----------------------------------------------------------------------------
(* VlessRequest::decode as a function of the buffer it is given *)

\* Addons payloads: none, two bytes that are no tag, both flow tags, a tag inside
\* other bytes, and each tag with its last byte missing.
AddonsCorpus ==
    { << >>, <<9, 9>>, VisionTag, VisionUdp443Tag, <<9>> \o VisionTag \o <<9>>,
      Take(VisionTag, Len(VisionTag) - 1), Take(VisionUdp443Tag, Len(VisionUdp443Tag) - 1) }

\* Address fields: type byte, then what follows it. IPv4, IPv6, domains of length
\* 0, 1, 2 (one two-byte character), 16 (the Vision tag as a name) and 255, a
\* domain that is not UTF-8, and the type bytes 0 and 4.
AddressCorpus ==
    { <<1, 127, 0, 0, 1>>, <<3>> \o Fill(16, 1),
      <<2, 0>>, <<2, 1, 97>>, <<2, 2, 195, 169>>, <<2, 16>> \o VisionTag,
      <<2, 255>> \o Fill(255, 97), <<2, 1, 255>>,
      <<0, 127, 0, 0, 1>>, <<4, 127, 0, 0, 1>> }

\* Whole headers, with and without a payload byte behind them.
WholeHeaders ==
    { << version >> \o UuidA \o << Len(addons) >> \o addons \o << command >>
          \o << port[1], port[2] >> \o address \o payload :
        version \in {0, 1, 2}, addons \in AddonsCorpus, command \in 0..4,
        port \in {<<0, 0>>, <<1, 187>>, <<255, 255>>}, address \in AddressCorpus,
        payload \in {<< >>, <<101>>} }

\* Headers cut short anywhere from the UUID's last byte on.
TruncatedHeaders ==
    { Take(h, Min(k, Len(h) - 1)) :
        h \in { << 1 >> \o UuidA \o << Len(addons) >> \o addons \o <<1, 1, 187>> \o address :
                   addons \in {<< >>, <<9, 9>>}, address \in AddressCorpus },
        k \in 17..(18 + 2 + 3 + 17) }

DecodeInputs == WholeHeaders \cup TruncatedHeaders

InitDecode ==
    /\ NoSession
    /\ InitStats
    /\ sessions = << >>
    /\ fn_arg \in DecodeInputs
    /\ fn_ret = << >>
    /\ NoPool

\* VlessRequest::decode(header_bytes)
DecodeCall ==
    /\ fn_ret = << >>
    /\ fn_ret' = << VlessRequestDecode(fn_arg) >>
    /\ UNCHANGED << fn_arg, cfgv, poolv, cliv, tgtv, udpv, reqv, upv, downv, bytev, connv,
                    dialled, active_connections, rejected_connections, sessions >>

NextDecode == DecodeCall

SpecDecode == InitDecode /\ [][NextDecode]_vars

-----------------------------------------------------------------------------
(* Properties *)

\* The header the client's script opens with, and the payload that follows it.
HeaderOf(s) == CHOOSE h \in HeaderCorpus : IsPrefix(h, s)

PayloadOf(s) == Drop(s, Len(HeaderOf(s)))

\* The bytes after the header that the server has read so far.
Consumed == SubSeq(script, Len(HeaderOf(script)) + 1, c_read)

\* Every byte a target can send: the TCP target's script and the datagrams' bytes.
DownloadBytes ==
    { t_script[i] : i \in 1..Len(t_script) }
        \cup { udp_queue[i].data[j] : i \in 1..Len(udp_queue), j \in 1..2 }

\* C1: once a request is decoded and its UUID accepted, the client receives
\* exactly one response frame [version, 0x00], echoing the version byte it sent;
\* the frame is on the wire before a target is dialled, before any byte goes to the
\* target and before any target byte goes to the client.
C1_ResponseOnceBeforeRelay ==
    request # NoRequest =>
        LET frame == << script[1], 0 >> IN
        /\ client_rx = << >> \/ IsPrefix(frame, client_rx)
        /\ pc \in {"connect", "udp_bind", "initial_data", "join"}
              => IsPrefix(frame, client_rx)
        /\ (dialled > 0 \/ target_rx # << >> \/ udp_sent # << >>)
              => IsPrefix(frame, client_rx)
        /\ \A i \in 3..Len(client_rx) : client_rx[i] \in DownloadBytes

C1_Witness ==
    /\ request # NoRequest /\ script[1] = 0
    /\ Len(target_rx) = 2
    /\ client_rx = << 0, 0 >> \o TargetPayload(2)

\* C2: in a TCP session the bytes written to the target are remaining followed by
\* the later client bytes, in order: always a prefix of the client's payload, and
\* equal to everything read so far as long as no write to the target has failed.
C2_UploadExact ==
    request.command = 1 =>
        /\ IsPrefix(target_rx, PayloadOf(script))
        /\ up_pc = "read" => target_rx = Consumed
        /\ up_pc = "write" => target_rx \o up_buf = Consumed
        /\ (up_pc \in {"flush", "done"} /\ ~t_rst) => target_rx = Consumed

C2_Witness ==
    /\ request.command = 1
    /\ Len(remaining_data) = 1
    /\ target_rx = ClientPayload(2)
    /\ up_pc = "done"

\* C3: in a TCP session the bytes written to the client after the response frame
\* are the bytes read from the target, in order, nothing lost or repeated, as long
\* as no write to the client has failed; this holds whatever state the upload is in.
C3_DownloadExact ==
    (request.command = 1 /\ down_pc # "idle") =>
        LET delivered == Drop(client_rx, 2)
            taken == Take(t_script, t_read)
        IN  /\ IsPrefix(delivered, t_script)
            /\ down_pc = "read" => delivered = taken
            /\ down_pc = "write" => delivered \o down_buf = taken
            /\ (down_pc \in {"flush", "done"} /\ ~c_rst) => delivered = taken

C3_Witness ==
    /\ request.command = 1
    /\ up_pc = "done" /\ up_total = 0 /\ target_rx = << >>
    /\ down_pc = "read" /\ ~t_eof /\ ~t_rst
    /\ Drop(client_rx, 2) = TargetPayload(2)

\* C4: a request whose UUID is not a configured user ends the session at the
\* header read with nothing written to the client, no target dialled or socket
\* bound, no guard taken, and the active and rejected counters untouched.
C4_UnknownUuidRejected ==
    (Len(script) >= 17 /\ SubSeq(script, 2, 17) \notin users) =>
        /\ client_rx = << >>
        /\ dialled = 0 /\ target_rx = << >> /\ udp_sent = << >>
        /\ ~guard /\ dec_tasks = 0
        /\ active_connections = 0 /\ rejected_connections = 0
        /\ c_read > 0 => (pc = "returned" /\ result # "ok")

C4_Witness ==
    /\ HeaderOf(script) = H_UnknownUser
    /\ c_read = Len(script) /\ Len(PayloadOf(script)) > 0
    /\ pc = "returned" /\ result = "err"

\* C5: when the first read holds a malformed header (bad version, bad command,
\* bad address tag, domain not UTF-8) or stops short of the header's end, the
\* handler ends at once with an error or an unwound panic: nothing was written
\* to the client, no target dialled, no guard taken.
C5_MalformedClosedSilently ==
    LET h == HeaderOf(script) IN
    (h # H_HttpGet /\ c_read > 0 /\ (h \in MalformedHeaders \/ c_read < Len(h))) =>
        /\ pc = "returned" /\ result \in {"err", "panic"}
        /\ client_rx = << >>
        /\ dialled = 0 /\ target_rx = << >> /\ udp_sent = << >>
        /\ ~guard /\ active_connections = 0

C5_Witness ==
    /\ HeaderOf(script) = H_BadUtf8
    /\ c_read = Len(script)
    /\ pc = "returned" /\ result = "err" /\ client_rx = << >>

\* C6: with max_connections = N the number of sessions holding an active slot
\* never exceeds N, and every accept made while N are active is counted as rejected.
C6_GovernorBound ==
    LET active == { i \in 1..Len(sessions) : sessions[i].phase = "active" }
        live == { i \in 1..Len(sessions) : sessions[i].phase # "ended" }
    IN  /\ Cardinality(active) <= vless_max_connections
        /\ Cardinality(live) > vless_max_connections => rejected_connections > 0

\* C7: a session that took an active slot gives it back exactly once, whatever
\* the way it ends: the counter is the guards still held plus the decrements
\* still to run, a returned handler holds no guard, at most one decrement is
\* ever owed, and the counter never goes below zero.
C7_SlotReleasedOnce ==
    /\ active_connections = (IF guard THEN 1 ELSE 0) + dec_tasks
    /\ active_connections >= 0
    /\ dec_tasks <= 1
    /\ pc = "returned" => ~guard
    /\ (pc = "returned" /\ dec_tasks = 0) => active_connections = 0

C7_Witness ==
    /\ request.command = 3
    /\ pc = "returned" /\ result = "err"
    /\ ~guard /\ dec_tasks = 0 /\ active_connections = 0

\* C8: in a TCP relay, once one direction has ended the other completes no
\* further read: it is stopped where it waits.
C8_EitherEndStopsBoth ==
    [][ (request.command = 1 /\ pc = "join") =>
            /\ (up_pc = "done" /\ down_pc = "read") => down_pc' # "write"
            /\ (down_pc = "done" /\ up_pc = "read") => up_pc' # "write" ]_vars

\* C9: in a UDP session a read of n > 0 bytes from the client becomes one datagram
\* holding exactly those n bytes, addressed to the requested destination; a
\* datagram is sent only for a read, and a read whose send fails ends the direction.
C9_OneDatagramPerRead ==
    [][ request.command = 2 =>
            /\ (up_pc = "read" /\ c_read' > c_read) =>
                  /\ up_pc' = "write"
                  /\ up_buf' = SubSeq(script, c_read + 1, c_read')
                  /\ udp_sent' = udp_sent
            /\ (up_pc = "write" /\ up_pc' # "write") =>
                  \/ /\ udp_sent' = Append(udp_sent, [dst |-> TargetAddrOf(request),
                                                      data |-> up_buf])
                     /\ up_pc' = "read"
                  \/ /\ udp_err /\ udp_sent' = udp_sent /\ up_pc' = "flush"
            /\ udp_sent' # udp_sent => up_pc = "write"
            /\ c_read' # c_read => up_pc = "read" ]_vars

C9_Witness ==
    /\ request.command = 2
    /\ Len(udp_sent) = 2
    /\ udp_sent[1].dst.port = 53 /\ udp_sent[1].data = << 101 >>
    /\ udp_sent[2].dst.port = 53 /\ udp_sent[2].data = << 102 >>

\* The bytes of the first k datagrams received that came from the destination.
RECURSIVE FromPinned(_)
FromPinned(k) ==
    IF k = 0 THEN << >>
    ELSE FromPinned(k - 1)
            \o (IF udp_queue[k].src = TargetAddrOf(request) THEN udp_queue[k].data ELSE << >>)

\* C10: in a UDP session the client receives, after the response frame, the
\* datagrams that came from the destination, each whole and in order, and nothing
\* from any other source; a datagram from elsewhere changes no counter, and the
\* direction ends only on a socket error or a failed write to the client.
C10_ForeignDatagramsDropped ==
    (request.command = 2 /\ down_pc # "idle") =>
        LET delivered == Drop(client_rx, 2)
            expected == FromPinned(udp_read)
        IN  /\ down_total = Len(expected)
            /\ total_download_bytes + down_batch = Len(expected)
            /\ IsPrefix(delivered, expected)
            /\ down_pc = "read" => delivered = expected
            /\ down_pc = "write" =>
                  /\ delivered \o down_buf = expected
                  /\ down_buf = udp_queue[udp_read].data
            /\ down_pc \in {"flush", "done"} => (udp_err \/ c_rst)

C10_Witness ==
    /\ request.command = 2
    /\ udp_read = 2
    /\ udp_queue[1].src = OtherEndpoint /\ udp_queue[2].src = TargetAddrOf(request)
    /\ down_pc = "read" /\ down_total = 2
    /\ Drop(client_rx, 2) = DatagramData(2)

\* The steps the server takes by itself, as opposed to those of the client, the
\* target and the network.
ProgramStep ==
    \/ Peek \/ TlsAccept \/ PeekInitial \/ HttpRead
    \/ ReadHeader \/ GuardNew \/ WriteResponse
    \/ Connect \/ InitialData
    \/ UpRead \/ UpWrite \/ UpFlush
    \/ DownRead \/ DownWrite \/ DownFlush
    \/ UdpBind
    \/ UdpUpRead \/ UdpUpTimeout \/ UdpUpSend \/ UdpUpFlush
    \/ UdpDownRecv \/ UdpDownWrite \/ UdpDownFlush
    \/ Join
    \/ VisionConnect \/ VisionEarlyData \/ VisionDetect \/ VisionForward
    \/ VisionUpRead \/ VisionUpWrite \/ VisionUpFlush
    \/ VisionDownRead \/ VisionDownWrite \/ VisionDownFlush
    \/ DecrementTask

\* C11: in a UDP session whose header read left bytes over, the first datagram
\* sent to the destination carries those bytes.
C11_RemainingFirstDatagram ==
    (request.command = 2 /\ remaining_data # << >> /\ udp_sent # << >>) =>
        udp_sent[1].data = remaining_data

\* C12: in a UDP session whose upload direction ended on the idle timeout, the
\* handler goes on to return by its own steps: it does not wait for the target.
C12_IdleTimeoutEndsSession ==
    (request.command = 2 /\ pc = "join" /\ up_pc = "done"
        /\ ~c_eof /\ ~c_rst /\ ~udp_err) => ENABLED ProgramStep

\* C13: in a UDP session whose client stream has ended, the handler goes on to
\* return by its own steps, without a further datagram from the target.
C13_ClientEndEndsSession ==
    (request.command = 2 /\ pc = "join" /\ up_pc = "done"
        /\ (c_eof \/ c_rst)) => ENABLED ProgramStep

\* The session is TLS-terminated, asks for a Vision flow and carries a TCP command.
VisionCase ==
    /\ tls_stream
    /\ request.xtls_flow \in {"XtlsRprxVision", "XtlsRprxVisionUdp443"}
    /\ request.command = 1

VisionPcs == {"vision_connect", "vision_early", "vision_detect", "vision_forward"}

\* The handler has passed the dispatch that follows the VLESS response.
Dispatched ==
    pc \in VisionPcs \cup {"connect", "initial_data", "udp_bind", "join"}

\* C14: a dispatched session runs the Vision state machine exactly when it is
\* TLS-terminated, its flow is Vision or Vision-UDP-443 and its command is TCP;
\* every other dispatched session is the plain relay (TCP) or the UDP session.
C14_VisionIffTlsFlowTcp ==
    Dispatched =>
        /\ (pc \in VisionPcs \/ vision_state # "none") <=> VisionCase
        /\ request.command \in {1, 2}
        /\ (request.command = 1 /\ ~VisionCase) => pc \in {"connect", "initial_data", "join"}
        /\ request.command = 2 <=> (pc = "udp_bind" \/ (pc = "join" /\ UdpSession))
        /\ request.command = 2 => target_rx = << >>
        /\ request.command = 1 => udp_sent = << >>
        /\ (pc = "join" /\ ~VisionCase) =>
               /\ up_pc \notin {"vread", "vwrite", "vflush"}
               /\ down_pc \notin {"vread", "vwrite", "vflush"}

\* A Vision-UDP-443 header with the TCP command over TLS has been spliced.
C14_Witness ==
    /\ tls_stream /\ request.xtls_flow = "XtlsRprxVisionUdp443"
    /\ vision_state = "Spliced" /\ pc = "join"

\* C15: detect_tls_content(B) is true exactly when B has at least 5 bytes, its
\* first byte is in 0x14..0x17, its second byte is 3, its third byte is in 1..4,
\* the big-endian length L in bytes 4-5 is at most 16384 and B has at least
\* 5 + L bytes.
C15_DetectTlsExact ==
    fn_ret # << >> =>
        (fn_ret[1] <=>
            /\ Len(fn_arg) >= 5
            /\ fn_arg[1] \in 20..23
            /\ fn_arg[2] = 3
            /\ fn_arg[3] \in 1..4
            /\ fn_arg[4] * 256 + fn_arg[5] <= 16384
            /\ Len(fn_arg) >= 5 + fn_arg[4] * 256 + fn_arg[5])

\* A whole record of the largest accepted length, 16384 bytes, was classified.
C15_Witness ==
    /\ fn_ret = << TRUE >>
    /\ Len(fn_arg) = 5 + 16384
    /\ fn_arg[4] = 64 /\ fn_arg[5] = 0

\* C16: in a Vision session the target receives remaining, then the sniffed chunk,
\* then the later client bytes, in the client's order and with nothing lost or
\* repeated, whether the sniffed chunk was classified as TLS (Spliced) or not
\* (Normal); equality with everything read holds as long as no write to the target
\* has failed.
C16_VisionUploadOrder ==
    vision_state # "none" =>
        /\ IsPrefix(target_rx, PayloadOf(script))
        /\ pc = "vision_early" => target_rx = << >> /\ Consumed = remaining_data
        /\ pc = "vision_detect" => target_rx = remaining_data /\ Consumed = remaining_data
        /\ pc = "vision_forward" =>
               target_rx = remaining_data /\ remaining_data \o up_buf = Consumed
        /\ up_pc = "vread" => target_rx = Consumed
        /\ up_pc = "vwrite" => target_rx \o up_buf = Consumed
        /\ (up_pc \in {"vflush", "done"} /\ ~t_rst) => target_rx = Consumed

\* A session sniffed as not TLS delivered one byte of remaining, the sniffed chunk
\* and bytes the upload task read later: six bytes in the client's order.
C16_Witness ==
    /\ vision_state = "Normal"
    /\ Len(remaining_data) = 1
    /\ up_total > 0
    /\ target_rx = TlsRecord \o ClientPayload(1)
    /\ up_pc = "done"

\* C18: a connection whose first byte is 0x16 is handed to the TLS terminator and
\* never decoded as raw VLESS or HTTP: nothing is read, decoded, answered or
\* dialled before the handshake has succeeded; without TLS material, or when the
\* handshake fails, the connection ends in an error with no byte written to it.
C18_TlsFirstByteTerminated ==
    conn_tls =>
        /\ pc \notin {"peek_initial", "http_read"}
        /\ ~tls_stream =>
               /\ pc \in {"peek", "tls_accept", "returned"}
               /\ request = NoRequest /\ c_read = 0 /\ dialled = 0
               /\ client_rx = << >>
               /\ pc = "returned" => result = "err"
        /\ ~tls_config => ~tls_stream /\ pc \in {"peek", "returned"}

\* A 0x16 connection was closed with an error and without a response while TLS
\* material was configured (the handshake failed).
C18_Witness ==
    /\ conn_tls /\ tls_config /\ ~tls_stream
    /\ pc = "returned" /\ result = "err"
    /\ client_rx = << >>
    /\ ~c_rst /\ ~c_eof

\* C17: in a Vision session the target-to-client direction forwards from the
\* target's first byte whatever the client does: when the session has ended
\* normally and neither side was reset, every byte the target sent has been
\* delivered to the client after the response frame, also when the client closed
\* its write side without sending a chunk after the header.
C17_TargetBytesDelivered ==
    (vision_state # "none" /\ pc = "returned" /\ result = "ok" /\ ~c_rst /\ ~t_rst)
        => Drop(client_rx, 2) = Take(t_script, t_sent)

\* The first bytes the contract classifies as HTTP: the nine method prefixes and
\* the 3-byte HTTP/2 preface "PRI".
ClaimedHttp(s) ==
    \/ Len(s) >= 4 /\ Take(s, 4) \in HttpPrefixes
    \/ Len(s) >= 3 /\ Take(s, 3) = <<80, 82, 73>>

\* C19: a connection whose first byte is not 0x16 is routed to the HTTP handler,
\* and never decoded as a VLESS header, exactly when its first bytes are one of
\* the nine method prefixes or "PRI": once the handler has read at least four
\* bytes and returned, it has answered with an HTTP response and decoded no
\* request if and only if the connection opened with such a prefix.
C19_HttpClassifiedExactly ==
    (~conn_tls /\ pc = "returned" /\ ~c_rst /\ c_read >= 4) =>
        (ClaimedHttp(script) <=>
            (request = NoRequest /\ result = "ok" /\ client_rx = HttpResponseBytes))

\* Path normalisation of the contract on the request paths above: runs of "/"
\* collapse, so "//ws" is "/ws"; the other paths are already normal.
NormalisedPath(p) == IF p = Path_ws2 THEN Path_ws ELSE p

\* C20: an HTTP-classified connection is upgraded to WebSocket exactly when the
\* request has an Upgrade header equal to "websocket" ignoring case, a Connection
\* header containing "upgrade", a Sec-WebSocket-Key header and a normalised path
\* equal to the configured WebSocket path; every other request receives a
\* built-in HTTP response.
C20_UpgradeIffHandshakeAndPath ==
    fn_ret # << >> =>
        LET handshake ==
                /\ ToLower(fn_arg.upgrade) = Str_websocket
                /\ Contains(ToLower(fn_arg.connection), Str_upgrade)
                /\ fn_arg.has_key
                /\ NormalisedPath(fn_arg.path) = fn_arg.ws_path
        IN  fn_ret[1] = IF handshake THEN "upgrade" ELSE "http_response"

\* C21: decode rejects with an error every header whose version byte is not 0 or
\* 1, whose command byte is not 1, 2 or 3, or whose address-type byte is not 1, 2
\* or 3; for every accepted header the decoded version, UUID, addons, command,
\* big-endian port and address are the bytes at the offsets of the wire layout,
\* and what is left is everything behind the address.
C21_DecodeFieldsExact ==
    (fn_ret # << >> /\ Len(fn_arg) >= 18) =>
        LET buf == fn_arg
            L == buf[18]
            r == fn_ret[1]
            addr_type == buf[22 + L]
            start == IF addr_type = 2 THEN 24 + L ELSE 23 + L
            n == IF addr_type = 1 THEN 4 ELSE IF addr_type = 2 THEN buf[23 + L] ELSE 16
        IN  /\ buf[1] \notin {0, 1} => r.tag = "err"
            /\ (Len(buf) >= 19 + L /\ buf[19 + L] \notin {1, 2, 3}) => r.tag = "err"
            /\ (Len(buf) >= 22 + L /\ buf[22 + L] \notin {1, 2, 3}) => r.tag = "err"
            /\ r.tag = "ok" =>
                   /\ r.request.version = buf[1]
                   /\ r.request.uuid = SubSeq(buf, 2, 17)
                   /\ r.request.addons = SubSeq(buf, 19, 18 + L)
                   /\ r.request.command = buf[19 + L]
                   /\ r.request.port = buf[20 + L] * 256 + buf[21 + L]
                   /\ r.request.address.type = addr_type
                   /\ r.request.address.bytes = SubSeq(buf, start, start + n - 1)
                   /\ r.remaining = Drop(buf, start + n - 1)

\* A header with a non-empty addons payload, command 3, port 65535 and a two-byte
\* domain was accepted, with a payload byte left behind it.
C21_Witness ==
    /\ fn_ret # << >>
    /\ fn_ret[1].tag = "ok"
    /\ fn_ret[1].request.addons = <<9, 9>>
    /\ fn_ret[1].request.command = 3
    /\ fn_ret[1].request.port = 65535
    /\ fn_ret[1].request.address = [type |-> 2, bytes |-> <<195, 169>>]
    /\ fn_ret[1].remaining = <<101>>

\* C22: decoding a domain address (type 2) with length byte 0 is an error, while
\* every length from 1 to 255 with that many valid UTF-8 bytes present is accepted
\* and yields exactly those bytes as the domain.
C22_DomainLength ==
    (/\ fn_ret # << >>
     /\ fn_arg \in WholeHeaders
     /\ fn_arg[1] \in {0, 1} /\ fn_arg[18] = 0 /\ fn_arg[19] \in {1, 2, 3}
     /\ fn_arg[22] = 2) =>
        LET len == fn_arg[23]
            name == SubSeq(fn_arg, 24, 23 + len)
            r == fn_ret[1]
        IN  /\ len = 0 => r.tag = "err"
            /\ (len >= 1 /\ IsUtf8(name)) =>
                   r.tag = "ok" /\ r.request.address = [type |-> 2, bytes |-> name]

\* C23: the decoded flow is derived from the addons bytes alone: Vision-UDP-443
\* when they contain the tag "xtls-rprx-vision-udp443", Vision when they contain
\* "xtls-rprx-vision" but not the longer tag, and None otherwise, whatever the
\* other fields of the header and the payload hold.
C23_FlowFromAddons ==
    (fn_ret # << >> /\ fn_ret[1].tag = "ok") =>
        LET addons == SubSeq(fn_arg, 19, 18 + fn_arg[18])
            flow == fn_ret[1].request.xtls_flow
        IN  /\ Contains(addons, VisionUdp443Tag) => flow = "XtlsRprxVisionUdp443"
            /\ (Contains(addons, VisionTag) /\ ~Contains(addons, VisionUdp443Tag))
                   => flow = "XtlsRprxVision"
            /\ ~Contains(addons, VisionTag) => flow = "None"

\* A header whose addons hold the whole long tag was decoded with a domain that
\* spells the short tag.
C23_Witness ==
    /\ fn_ret # << >>
    /\ fn_ret[1].tag = "ok"
    /\ fn_ret[1].request.addons = VisionUdp443Tag
    /\ fn_ret[1].request.address.bytes = VisionTag
    /\ fn_ret[1].request.xtls_flow = "XtlsRprxVisionUdp443"

\* C30: for every buffer of at least 18 bytes that ends before the command, port,
\* address-type or address bytes are complete, decode returns an error value: it
\* neither reads past the end of the buffer nor aborts the task.
C30_ShortHeaderIsError ==
    (fn_ret # << >> /\ fn_arg \in TruncatedHeaders /\ Len(fn_arg) >= 18) =>
        fn_ret[1].tag = "err"

\* C24: while no target has been reached for an authenticated TCP or UDP request,
\* the client holds at most the 2-byte VLESS response and nothing was relayed; the
\* response is on the wire before the dial is attempted, and when resolution or
\* the dial fails the session ends in an error with exactly that response sent.
C24_DialFailureAfterResponse ==
    (request.command \in {1, 2} /\ target_addr = NoEndpoint) =>
        /\ IsPrefix(client_rx, << request.version, 0 >>)
        /\ target_rx = << >> /\ udp_sent = << >>
        /\ total_upload_bytes = 0 /\ total_download_bytes = 0
        /\ pc \in {"connect", "vision_connect", "udp_bind"} =>
               client_rx = << request.version, 0 >>
        /\ pc = "returned" =>
               /\ result = "err"
               /\ client_rx # << >> => client_rx = << request.version, 0 >>

\* The dial of a TCP target was attempted and failed while a payload byte was
\* waiting: the client holds the response and nothing else.
C24_Witness ==
    /\ request.command = 1 /\ target_addr = NoEndpoint
    /\ pc = "returned" /\ result = "err"
    /\ dialled = 1
    /\ Len(remaining_data) > 0
    /\ client_rx = << request.version, 0 >>
    /\ ~c_rst

\* C25: a request with command Mux (3) is closed as unsupported: the session ends
\* with an error, no target is resolved or dialled, no UDP socket is bound and no
\* payload byte is relayed in either direction; the client sees at most the VLESS
\* response.
C25_MuxClosed ==
    request.command = 3 =>
        /\ pc \in {"guard_new", "write_response", "returned"}
        /\ pc = "returned" => result = "err"
        /\ dialled = 0 /\ target_addr = NoEndpoint
        /\ target_rx = << >> /\ udp_sent = << >>
        /\ IsPrefix(client_rx, << request.version, 0 >>)
        /\ up_pc = "idle" /\ down_pc = "idle"
        /\ total_upload_bytes = 0 /\ total_download_bytes = 0

\* A Mux request with payload behind the header was answered and closed.
C25_Witness ==
    /\ request.command = 3
    /\ pc = "returned" /\ result = "err"
    /\ client_rx = << request.version, 0 >>
    /\ Len(remaining_data) > 0
    /\ ~c_rst

(* Config::from_json and the two places that use performance.buffer_size and
   performance.udp_timeout *)

\* fn default_buffer_size() -> usize { 128 * 1024 }
default_buffer_size == 128 * 1024

\* fn default_udp_timeout() -> u64 { 30 }
default_udp_timeout == 30

\* A #[serde(default = "...")] field: << >> is a key missing from the JSON
\* object, << v >> is the key with value v.
SerdeDefault(field, default) == IF field = << >> THEN default ELSE field[1]

\* Config::from_json is serde_json::from_str and nothing else: a well-formed
\* document deserialises into the values its keys hold.
from_json(json) ==
    [tag |-> "ok",
     buffer_size |-> SerdeDefault(json.buffer_size, default_buffer_size),
     udp_timeout |-> SerdeDefault(json.udp_timeout, default_udp_timeout)]

\* let mut buf = vec![0u8; buffer_size] in both relay tasks, with
\* buffer_size = perf_config.buffer_size.
RelayBufLen(perf_config) == perf_config.buffer_size

\* Duration::from_secs(udp_timeout) in both UDP tasks, with
\* udp_timeout = perf_config.udp_timeout.
UdpTimeoutSecs(perf_config) == perf_config.udp_timeout

\* tokio's read into a buffer of length len with avail bytes waiting: Ok(n).
ReadInto(len, avail) == Min(len, avail)

BufferSizeCorpus ==
    {<< >>, << 0 >>, << 1 >>, << 1023 >>, << 1024 >>, << 128 * 1024 >>,
     << 16 * 1024 * 1024 >>, << 16 * 1024 * 1024 + 1 >>}

UdpTimeoutCorpus ==
    {<< >>, << 0 >>, << 1 >>, << 30 >>, << 3600 >>, << 3601 >>, << 86400 >>}

ConfigInputs ==
    [buffer_size : BufferSizeCorpus, udp_timeout : UdpTimeoutCorpus]

InitConfig ==
    /\ fn_arg \in ConfigInputs
    /\ fn_ret = << >>
    /\ NoPool
    /\ NoSession
    /\ InitStats
    /\ sessions = << >>

\* main: Config::from_json(&content)?, then VlessServer::new(.., config.performance, ..)
ConfigLoad ==
    /\ fn_arg \in ConfigInputs
    /\ fn_ret = << >>
    /\ fn_ret' = << from_json(fn_arg) >>
    /\ UNCHANGED << fn_arg, cfgv, poolv, cliv, tgtv, udpv, reqv, upv, downv, bytev, connv,
                    dialled, active_connections, rejected_connections, sessions >>

\* handle_bidirectional_transfer: a relay direction allocates its buffer and
\* reads once with a byte waiting.
RelayStart ==
    /\ Len(fn_ret) = 1 /\ fn_ret[1].tag = "ok"
    /\ fn_ret' = Append(fn_ret,
                        [kind |-> "relay",
                         size |-> RelayBufLen(fn_ret[1]),
                         read |-> ReadInto(RelayBufLen(fn_ret[1]), 1)])
    /\ UNCHANGED << fn_arg, cfgv, poolv, cliv, tgtv, udpv, reqv, upv, downv, bytev, connv,
                    dialled, active_connections, rejected_connections, sessions >>

\* handle_udp_proxy: a UDP direction arms its idle timeout.
UdpSessionStart ==
    /\ Len(fn_ret) = 1 /\ fn_ret[1].tag = "ok"
    /\ fn_ret' = Append(fn_ret,
                        [kind |-> "udp",
                         size |-> UdpTimeoutSecs(fn_ret[1]),
                         read |-> 0])
    /\ UNCHANGED << fn_arg, cfgv, poolv, cliv, tgtv, udpv, reqv, upv, downv, bytev, connv,
                    dialled, active_connections, rejected_connections, sessions >>

NextConfig == ConfigLoad \/ RelayStart \/ UdpSessionStart

SpecConfig == InitConfig /\ [][NextConfig]_vars

\* C26: a configuration whose udp_timeout is 0 or above 3600 is rejected when it
\* is loaded, so no UDP session runs with an idle timeout outside 1..3600 seconds.
C26_UdpTimeoutValidated ==
    /\ (Len(fn_ret) >= 1 /\ fn_arg.udp_timeout # << >>
          /\ fn_arg.udp_timeout[1] \notin 1..3600) => fn_ret[1].tag = "err"
    /\ (Len(fn_ret) = 2 /\ fn_ret[2].kind = "udp") => fn_ret[2].size \in 1..3600

\* C27: whatever buffer_size is configured, the buffer a relay direction reads
\* into has between 1 KiB and 16 MiB bytes (smaller values raised to 1 KiB, larger
\* ones lowered to 16 MiB), so a read with data waiting never returns 0 bytes.
C27_RelayBufferClamped ==
    (Len(fn_ret) = 2 /\ fn_ret[2].kind = "relay") =>
        /\ fn_ret[2].size >= 1024 /\ fn_ret[2].size <= 16 * 1024 * 1024
        /\ fn_ret[1].buffer_size < 1024 => fn_ret[2].size = 1024
        /\ fn_ret[1].buffer_size > 16 * 1024 * 1024 => fn_ret[2].size = 16 * 1024 * 1024
        /\ fn_ret[2].read > 0

(* memory::BufferPool, PooledBuffer and the tasks that borrow buffers *)

\* The largest max_pool_size a pool of the model is built with.
MaxPoolSize == 2

\* The number of tasks that borrow from the pool (the threads of
\* test_concurrent_access, the connection tasks of the server).
NumBorrowers == 2

\* How many times one task calls get_buffer.
MaxCalls == 2

Borrowers == 1..NumBorrowers

\* BufferPool::new(buffer_size, initial_size, max_pool_size): the queue is filled
\* with initial_size buffers, every counter starts at 0.
BufferPoolNew(initial_size, max_pool_size) ==
    [buffers         |-> initial_size,
     max_pool_size   |-> max_pool_size,
     allocated_count |-> 0,
     returned_count  |-> 0,
     cache_hits      |-> 0,
     cache_misses    |-> 0,
     stats |-> [total_allocated   |-> 0,
                total_returned    |-> 0,
                current_pool_size |-> initial_size,
                peak_pool_size    |-> initial_size]]

\* GlobalBufferPools::new builds every pool with initial_size <= max_pool_size
\* (50/200, 20/100, 10/50).
PoolConfigs ==
    {c \in (0..MaxPoolSize) \X (1..MaxPoolSize) : c[1] <= c[2]}

\* BufferPool::get_stats: the totals are read from the atomic counters.
get_stats(p) ==
    [total_allocated   |-> p.allocated_count,
     total_returned    |-> p.returned_count,
     current_pool_size |-> p.stats.current_pool_size,
     peak_pool_size    |-> p.stats.peak_pool_size,
     cache_hits        |-> p.cache_hits,
     cache_misses      |-> p.cache_misses]

\* return_buffer: if buffers.len() < self.max_pool_size
ReturnFits_AtMax(len, max_pool_size) == len <= max_pool_size
ReturnFits(len, max_pool_size) == len < max_pool_size

\* return_to_pool and Drop::drop: if !self.returned
ShouldReturn_Always(returned) == TRUE
ShouldReturn(returned) == ~returned

\* A task outside any borrow: no PooledBuffer, no mutex held, calls made and
\* borrows finished.
IdleBorrower(calls, finished) ==
    [pc |-> "idle", returned |-> FALSE, then |-> "idle", locks |-> {}, hit |-> FALSE,
     calls |-> calls, finished |-> finished]

InitPool ==
    /\ NoSession
    /\ InitStats
    /\ sessions = << >>
    /\ fn_arg = << >> /\ fn_ret = << >>
    /\ NoConnPool
    /\ NoWsManager
    /\ \E c \in PoolConfigs : pool = BufferPoolNew(c[1], c[2])
    /\ borrowers = [b \in Borrowers |-> IdleBorrower(0, 0)]

PoolFrame ==
    UNCHANGED << purev, cfgv, conn_pool, conn_tasks, ws_manager, ws_calls, cliv,
                 tgtv, udpv, reqv, upv, downv, bytev, connv, dialled, active_connections,
                 rejected_connections, sessions >>

\* Mutex::lock returns once no other task holds the mutex: "buffers" is
\* BufferPool.buffers, "stats" is BufferPool.stats.
MutexFree(m) == \A o \in Borrowers : m \notin borrowers[o].locks

\* get_buffer: self.buffers.lock(), then pop_front with cache_hits.fetch_add or,
\* on an empty queue, cache_misses.fetch_add.
GetBufferLocked(b) ==
    /\ borrowers[b].pc = "idle"
    /\ borrowers[b].calls < MaxCalls
    /\ MutexFree("buffers")
    /\ pool' = IF pool.buffers > 0
               THEN [pool EXCEPT !.buffers = @ - 1, !.cache_hits = @ + 1]
               ELSE [pool EXCEPT !.cache_misses = @ + 1]
    /\ borrowers' = [borrowers EXCEPT ![b].pc = "get_buffer_queue",
                                      ![b].locks = {"buffers"},
                                      ![b].hit = pool.buffers > 0,
                                      ![b].calls = @ + 1]
    /\ PoolFrame

\* get_buffer, still inside the block that holds the buffers guard:
\* self.stats.lock() and the update of the statistics (current_pool_size after
\* a hit; after a miss only the hit and miss statistics, which get_stats
\* overwrites with the atomic counters).
GetBufferStats(b) ==
    /\ borrowers[b].pc = "get_buffer_queue"
    /\ MutexFree("stats")
    /\ pool' = IF borrowers[b].hit
               THEN [pool EXCEPT !.stats.current_pool_size = pool.buffers]
               ELSE pool
    /\ borrowers' = [borrowers EXCEPT ![b].pc = "get_buffer_stats",
                                      ![b].locks = @ \cup {"stats"}]
    /\ PoolFrame

\* get_buffer: the end of the block drops the stats guard and the buffers guard.
GetBufferUnlock(b) ==
    /\ borrowers[b].pc = "get_buffer_stats"
    /\ borrowers' = [borrowers EXCEPT ![b].pc = "get_buffer", ![b].locks = {}]
    /\ UNCHANGED pool
    /\ PoolFrame

\* get_buffer, after the block: allocated_count.fetch_add(1), total_allocated += 1
\* under the stats mutex alone, PooledBuffer::new(buffer, pool) with returned: false.
GetBufferCount(b) ==
    /\ borrowers[b].pc = "get_buffer"
    /\ MutexFree("stats")
    /\ pool' = [pool EXCEPT !.allocated_count = @ + 1,
                            !.stats.total_allocated = @ + 1]
    /\ borrowers' = [borrowers EXCEPT ![b].pc = "holding",
                                      ![b].returned = FALSE]
    /\ PoolFrame

\* PooledBuffer::return_to_pool(mut self): returns the buffer unless it is
\* already returned; self goes out of scope at the end of the call.
ReturnToPool(b) ==
    /\ borrowers[b].pc = "holding"
    /\ borrowers' = IF ShouldReturn(borrowers[b].returned)
                    THEN [borrowers EXCEPT ![b].returned = TRUE,
                                           ![b].pc = "return_buffer",
                                           ![b].then = "drop"]
                    ELSE [borrowers EXCEPT ![b].pc = "drop"]
    /\ UNCHANGED pool
    /\ PoolFrame

\* Drop for PooledBuffer: at the end of the borrower's scope, or of
\* return_to_pool; returns the buffer unless it is already returned.
DropPooledBuffer(b) ==
    /\ borrowers[b].pc \in {"holding", "drop"}
    /\ borrowers' = IF ShouldReturn(borrowers[b].returned)
                    THEN [borrowers EXCEPT ![b].returned = TRUE,
                                           ![b].pc = "return_buffer",
                                           ![b].then = "idle"]
                    ELSE [borrowers EXCEPT
                            ![b] = IdleBorrower(@.calls, @.finished + 1)]
    /\ UNCHANGED pool
    /\ PoolFrame

\* return_buffer, before the lock: returned_count.fetch_add(1).
ReturnBufferCount(b) ==
    /\ borrowers[b].pc = "return_buffer"
    /\ pool' = [pool EXCEPT !.returned_count = @ + 1]
    /\ borrowers' = [borrowers EXCEPT ![b].pc = "return_buffer_locked"]
    /\ PoolFrame

\* return_buffer: self.buffers.lock(), then push_back below max_pool_size, else
\* the buffer is discarded.
ReturnBufferLocked(b) ==
    /\ borrowers[b].pc = "return_buffer_locked"
    /\ MutexFree("buffers")
    /\ pool' = IF ReturnFits(pool.buffers, pool.max_pool_size)
               THEN [pool EXCEPT !.buffers = @ + 1]
               ELSE pool
    /\ borrowers' = [borrowers EXCEPT ![b].pc = "return_buffer_queue",
                                      ![b].locks = {"buffers"}]
    /\ PoolFrame

\* return_buffer, with the buffers guard still alive: self.stats.lock(),
\* current_pool_size, peak_pool_size and total_returned += 1.
ReturnBufferStats(b) ==
    /\ borrowers[b].pc = "return_buffer_queue"
    /\ MutexFree("stats")
    /\ pool' = [pool EXCEPT !.stats.current_pool_size = pool.buffers,
                            !.stats.peak_pool_size =
                                IF pool.buffers > @ THEN pool.buffers ELSE @,
                            !.stats.total_returned = @ + 1]
    /\ borrowers' = [borrowers EXCEPT ![b].pc = "return_buffer_stats",
                                      ![b].locks = @ \cup {"stats"}]
    /\ PoolFrame

\* return_buffer returns: both guards are dropped; after return_to_pool the
\* PooledBuffer is still to be dropped.
ReturnBufferUnlock(b) ==
    /\ borrowers[b].pc = "return_buffer_stats"
    /\ borrowers' = [borrowers EXCEPT
                       ![b] = IF @.then = "drop"
                              THEN [@ EXCEPT !.pc = "drop", !.locks = {}]
                              ELSE IdleBorrower(@.calls, @.finished + 1)]
    /\ UNCHANGED pool
    /\ PoolFrame

NextPool ==
    \/ \E b \in Borrowers : GetBufferLocked(b)
    \/ \E b \in Borrowers : GetBufferStats(b)
    \/ \E b \in Borrowers : GetBufferUnlock(b)
    \/ \E b \in Borrowers : GetBufferCount(b)
    \/ \E b \in Borrowers : ReturnToPool(b)
    \/ \E b \in Borrowers : DropPooledBuffer(b)
    \/ \E b \in Borrowers : ReturnBufferCount(b)
    \/ \E b \in Borrowers : ReturnBufferLocked(b)
    \/ \E b \in Borrowers : ReturnBufferStats(b)
    \/ \E b \in Borrowers : ReturnBufferUnlock(b)

SpecPool == InitPool /\ [][NextPool]_vars

RECURSIVE SumOver(_, _)
SumOver(f, S) ==
    IF S = {} THEN 0
    ELSE LET x == CHOOSE y \in S : TRUE IN f[x] + SumOver(f, S \ {x})

BorrowersAt(pcs) == Cardinality({b \in Borrowers : borrowers[b].pc \in pcs})

\* C28: the pool is a bounded queue: in every state the idle buffers number at
\* most max_pool_size, and a buffer released while the pool holds max_pool_size
\* buffers is dropped (the queue keeps its length).
C28_PoolBounded ==
    /\ [](pool.buffers <= pool.max_pool_size)
    /\ [][\A b \in Borrowers :
            (/\ borrowers[b].pc = "return_buffer_locked"
             /\ borrowers'[b].pc # "return_buffer_locked"
             /\ pool.buffers = pool.max_pool_size)
            => pool'.buffers = pool.buffers]_vars

\* Every borrowed buffer is back, the pool is at its maximum, and more buffers
\* were created on a miss than the pool holds: a release was dropped.
C28_Witness ==
    /\ \A b \in Borrowers : borrowers[b].pc = "idle"
    /\ pool.buffers = pool.max_pool_size
    /\ pool.cache_misses > pool.buffers

\* C29: every lent buffer is released exactly once, by the explicit return or by
\* the drop and never by both: total_allocated is the number of get_buffer calls
\* that have counted, total_returned is the number of borrows that have finished
\* or are inside their one release, and it never exceeds total_allocated; when
\* every task is idle all three numbers agree.
C29_ReleasedExactlyOnce ==
    LET st == get_stats(pool)
        calls == SumOver([b \in Borrowers |-> borrowers[b].calls], Borrowers)
        finished == SumOver([b \in Borrowers |-> borrowers[b].finished], Borrowers)
    IN /\ st.total_allocated =
            calls - BorrowersAt({"get_buffer_queue", "get_buffer_stats", "get_buffer"})
       /\ st.total_returned =
            finished + BorrowersAt({"return_buffer_locked", "return_buffer_queue",
                                    "return_buffer_stats", "drop"})
       /\ st.total_returned <= st.total_allocated
       /\ (\A b \in Borrowers : borrowers[b].pc = "idle") =>
             st.total_allocated = calls /\ st.total_returned = calls

\* A task has returned its last buffer explicitly and its PooledBuffer is about
\* to be dropped, every other borrow is finished, and the totals agree.
C29_Witness ==
    /\ \E b \in Borrowers :
         /\ borrowers[b].pc = "drop" /\ borrowers[b].returned
         /\ borrowers[b].calls = MaxCalls
         /\ \A o \in Borrowers \ {b} :
              borrowers[o].pc = "idle" /\ borrowers[o].finished = MaxCalls
    /\ get_stats(pool).total_returned = NumBorrowers * MaxCalls
    /\ get_stats(pool).total_allocated = NumBorrowers * MaxCalls

\* C31: the Vision state of a session leaves its initial state (EarlyData) at
\* most once: the step that leaves it is one client read after the header read,
\* the new state is Spliced if the bytes B of that read are detected as TLS and
\* Normal otherwise, and from Spliced or Normal the state never changes, whatever
\* the client sends afterwards.
C31_VisionStateOneShot ==
    [][/\ vision_state \in {"Spliced", "Normal"} => vision_state' = vision_state
       /\ (vision_state = "EarlyData" /\ vision_state' # "EarlyData") =>
            LET B == SubSeq(script, c_read + 1, c_read')
            IN  /\ c_read' > c_read
                /\ vision_state' = IF detect_tls_content(B) THEN "Spliced" ELSE "Normal"
       /\ vision_state = "none" => vision_state' \in {"none", "EarlyData"}]_vars

\* A client whose TLS record arrived split over two reads: the session chose
\* Normal on the first part and kept it while the rest was relayed.
C31_Witness ==
    /\ script \in TlsRecordScripts
    /\ vision_state = "Normal"
    /\ up_total > 0
    /\ c_read = Len(script)

\* The byte strings appended to a detected input: one or two bytes, among them
\* a record type, and the start of a following record.
Extensions ==
    { << b >> : b \in {0, 22, 255} }
        \cup { << a, b >> : a \in {0, 23}, b \in {3, 255} }
        \cup { <<22, 3, 1, 64, 1>>, <<23, 3, 3, 0, 0, 23, 3, 3, 0, 0>> }

\* C32: detection is monotone under extension: when detect_tls_content says TLS
\* for a byte string B, it says TLS for every B' that has B as a proper prefix.
C32_DetectMonotone ==
    (Len(fn_ret) = 1 /\ fn_ret[1] = TRUE) =>
        \A e \in Extensions : detect_tls_content(fn_arg \o e) = TRUE

\* A record with a body, complete to the byte, was detected.
C32_Witness ==
    /\ fn_ret = << TRUE >>
    /\ RecordLength(fn_arg) > 0
    /\ Len(fn_arg) = 5 + RecordLength(fn_arg)

\* C33: classification consumes nothing. On a connection that is not TLS, no
\* byte has been taken from the client when the header read starts; the request
\* and remaining are the decoding of a buffer that begins with the client's
\* first byte; and in a TCP session what the target receives is a prefix of the
\* client's bytes after the header, each byte once and in order.
C33_ClassificationConsumesNothing ==
    ~conn_tls =>
        /\ pc \in {"peek", "peek_initial", "read_header", "http_read"} => c_read = 0
        /\ request # NoRequest =>
             LET n == Len(HeaderOf(script)) + Len(remaining_data)
                 d == VlessRequestDecode(Take(script, n))
             IN  /\ n <= c_read
                 /\ d.tag = "ok" /\ d.request = request
                 /\ d.remaining = remaining_data
        /\ request.command = 1 =>
             /\ IsPrefix(target_rx, PayloadOf(script))
             /\ (up_pc \in {"read", "flush", "done"} /\ ~t_rst) => target_rx = Consumed

\* A raw VLESS client whose first read carried one payload byte behind the
\* header: both payload bytes arrived at the target.
C33_Witness ==
    /\ ~conn_tls
    /\ request.command = 1
    /\ Len(remaining_data) = 1
    /\ c_read = Len(script)
    /\ target_rx = PayloadOf(script)
    /\ Len(target_rx) = MaxPayload

\* The batch size of the session's directions: stats_batch_size in the plain and
\* UDP relays, BATCH_SIZE of the transfer function in a Vision session.
BatchSizeOfSession ==
    IF VisionSession THEN TransferBatchSize(vision_state) ELSE StatsBatchSize

\* What the handler itself has reported as upload before the directions start:
\* remaining in a TCP session, and the detection chunk too in a Normal Vision one.
UploadBase ==
    IF request.command = 2 THEN 0
    ELSE IF vision_state = "Normal" THEN Len(target_rx) - up_total
    ELSE Len(remaining_data)

\* C34: in every relay direction (plain, Vision, UDP) the local batch counter is
\* below the batch size whenever the loop is back at its read, what the direction
\* has reported is its running total minus that batch counter, and a direction
\* that has ended has flushed its remainder: its report equals its running total.
C34_BatchedAccounting ==
    /\ up_pc # "idle" =>
         /\ total_upload_bytes = UploadBase + up_total - up_batch
         /\ up_pc \in {"read", "vread"} => up_batch < BatchSizeOfSession
         /\ up_pc = "done" => up_batch = 0
    /\ down_pc # "idle" =>
         /\ total_download_bytes = down_total - down_batch
         /\ down_pc \in {"read", "vread"} => down_batch < BatchSizeOfSession
         /\ down_pc = "done" => down_batch = 0

\* The upload has ended after a full batch and reported all of it, while the
\* download is back at its read with one byte not yet reported.
C34_Witness ==
    /\ up_pc = "done" /\ up_total >= StatsBatchSize
    /\ total_upload_bytes = Len(remaining_data) + up_total
    /\ down_pc = "read" /\ down_batch = 1 /\ down_total = 1
    /\ total_download_bytes = 0

\* C35: there is no nested locking: no task acquires a second lock (the pool's
\* queue mutex, the pool's statistics mutex) while it holds another, so every
\* task holds at most one lock at a time.
C35_NoNestedLocking ==
    \A b \in Borrowers : Cardinality(borrowers[b].locks) <= 1

\* C36: when a TCP session (plain or Vision) has ended, the upload total reported
\* to the accounting sink equals the number of bytes written to the target.
C36_UploadReportedEqualsWritten ==
    (request.command = 1 /\ pc = "returned") =>
        total_upload_bytes = Len(target_rx)

(* A pooled vector between two borrowers: return_buffer, then get_buffer *)

\* The largest buffer_size of a recycled pool, and the longest vector a borrower
\* leaves behind (as_mut() hands out the Vec itself: it can be resized).
MaxBufferSize == 3
MaxLeftLen == 3

\* Vec::clear
VecClear_Keep(v) == v
VecClear(v) == << >>

\* Vec::resize(new_len, value): truncates, or appends copies of value.
VecResize(v, new_len, value) ==
    IF Len(v) >= new_len THEN Take(v, new_len)
    ELSE v \o [i \in 1..(new_len - Len(v)) |-> value]

\* vec![0u8; buffer_size]
VecZeroed(buffer_size) == [i \in 1..buffer_size |-> 0]

\* What a borrower can leave in its vector: any bytes, any length.
LeftBehind ==
    UNION { [1..n -> {0, 7, 255}] : n \in 0..MaxLeftLen }

RecycleInputs == [buffer_size : 1..MaxBufferSize, left : LeftBehind]

InitRecycle ==
    /\ NoSession
    /\ InitStats
    /\ sessions = << >>
    /\ NoPool
    /\ fn_arg \in RecycleInputs
    /\ fn_ret = << >>

RecycleFrame ==
    UNCHANGED << fn_arg, cfgv, poolv, cliv, tgtv, udpv, reqv, upv, downv, bytev, connv,
                 dialled, active_connections, rejected_connections, sessions >>

\* return_buffer: buffers.push_back(buffer), the vector as the borrower left it.
RecycleReturn ==
    /\ fn_ret = << >>
    /\ fn_ret' = << [queue |-> << fn_arg.left >>, lent |-> << >>] >>
    /\ RecycleFrame

\* get_buffer on a queue with a vector: pop_front, buf.clear(),
\* buf.resize(self.buffer_size, 0).
RecycleGetBuffer ==
    /\ Len(fn_ret) = 1 /\ fn_ret[1].queue # << >>
    /\ LET buf == Head(fn_ret[1].queue) IN
       fn_ret' = << [queue |-> Tail(fn_ret[1].queue),
                     lent  |-> << VecResize(VecClear(buf), fn_arg.buffer_size, 0) >>] >>
    /\ RecycleFrame

\* get_buffer on an empty queue: vec![0u8; self.buffer_size].
RecycleMiss ==
    /\ fn_ret = << >>
    /\ fn_ret' = << [queue |-> << >>, lent |-> << VecZeroed(fn_arg.buffer_size) >>] >>
    /\ RecycleFrame

NextRecycle == RecycleReturn \/ RecycleGetBuffer \/ RecycleMiss

SpecRecycle == InitRecycle /\ [][NextRecycle]_vars

\* C37: every buffer the pool hands out has exactly buffer_size bytes and all of
\* them are zero, whatever the previous borrower wrote into the vector or
\* resized it to.
C37_LentBufferZeroed ==
    (Len(fn_ret) = 1 /\ fn_ret[1].lent # << >>) =>
        LET buf == fn_ret[1].lent[1] IN
        /\ Len(buf) = fn_arg.buffer_size
        /\ \A i \in 1..Len(buf) : buf[i] = 0

\* A vector left longer than buffer_size and full of data was handed out again.
C37_Witness ==
    /\ Len(fn_ret) = 1 /\ fn_ret[1].lent # << >> /\ fn_ret[1].queue = << >>
    /\ Len(fn_arg.left) > fn_arg.buffer_size
    /\ \A i \in 1..Len(fn_arg.left) : fn_arg.left[i] # 0
    /\ fn_arg.buffer_size > 1

(* connection_pool::ConnectionPool: the idle connections of one target address *)

\* The largest max_connections_per_host a pool of the model is configured with.
MaxPerHost == 2

\* The number of tasks that use the pool, and how many connections each takes.
NumConnTasks == 2
MaxConnCalls == 2

ConnTasks == 1..NumConnTasks

\* ConnectionPool::new: an empty HashMap. entry: the address has a queue;
\* idle: the length of that queue.
ConnectionPoolNew(max_connections_per_host) ==
    [entry |-> FALSE, idle |-> 0,
     max_connections_per_host |-> max_connections_per_host]

IdleConnTask(calls) == [pc |-> "idle", calls |-> calls]

InitConn ==
    /\ NoSession
    /\ InitStats
    /\ sessions = << >>
    /\ fn_arg = << >> /\ fn_ret = << >>
    /\ NoBufferPool
    /\ NoWsManager
    /\ \E m \in 1..MaxPerHost : conn_pool = ConnectionPoolNew(m)
    /\ conn_tasks = [t \in ConnTasks |-> IdleConnTask(0)]

ConnFrame ==
    UNCHANGED << purev, cfgv, pool, borrowers, ws_manager, ws_calls, cliv, tgtv,
                 udpv, reqv, upv, downv, bytev, connv, dialled, active_connections, rejected_connections,
                 sessions >>

\* get_connection: try_get_pooled_connection pops entries under the read lock
\* and the queue's mutex, discarding the expired ones, until one is usable;
\* with none left a new connection is created (or the connect fails).
GetConnection(t) ==
    /\ conn_tasks[t].pc = "idle"
    /\ conn_tasks[t].calls < MaxConnCalls
    /\ \/ \E popped \in 1..conn_pool.idle :
             /\ conn_pool.entry
             /\ conn_pool' = [conn_pool EXCEPT !.idle = @ - popped]
             /\ conn_tasks' = [conn_tasks EXCEPT ![t].pc = "holding",
                                                 ![t].calls = @ + 1]
       \/ \E connected \in BOOLEAN :
             /\ conn_pool' = [conn_pool EXCEPT !.idle = 0]
             /\ conn_tasks' = [conn_tasks EXCEPT
                                 ![t].pc = IF connected THEN "holding" ELSE "idle",
                                 ![t].calls = @ + 1]
    /\ ConnFrame

\* PooledConnection::into_stream: returned = true, the stream leaves the pool
\* for good.
IntoStream(t) ==
    /\ conn_tasks[t].pc = "holding"
    /\ conn_tasks' = [conn_tasks EXCEPT ![t].pc = "idle"]
    /\ UNCHANGED conn_pool
    /\ ConnFrame

\* Drop for PooledConnection (a spawned return_connection), return_to_pool, and
\* warmup after create_new_connection: return_connection is called.
ReturnConnectionCall(t) ==
    /\ conn_tasks[t].pc = "holding"
    /\ conn_tasks' = [conn_tasks EXCEPT ![t].pc = "return_connection"]
    /\ UNCHANGED conn_pool
    /\ ConnFrame

\* return_connection under pools.read(): with an entry for the address, push
\* below max_connections_per_host or close; without one, the read guard is
\* dropped and the task goes for the write lock.
ReturnConnectionRead(t) ==
    /\ conn_tasks[t].pc = "return_connection"
    /\ IF conn_pool.entry
       THEN /\ conn_pool' = IF conn_pool.idle < conn_pool.max_connections_per_host
                            THEN [conn_pool EXCEPT !.idle = @ + 1]
                            ELSE conn_pool
            /\ conn_tasks' = [conn_tasks EXCEPT ![t].pc = "idle"]
       ELSE /\ conn_tasks' = [conn_tasks EXCEPT ![t].pc = "return_connection_write"]
            /\ UNCHANGED conn_pool
    /\ ConnFrame

\* return_connection under pools.write(): entry(target_addr).or_insert_with(..),
\* then pool.push_back(PoolEntry::new(stream)).
ReturnConnectionWrite(t) ==
    /\ conn_tasks[t].pc = "return_connection_write"
    /\ conn_pool' = [conn_pool EXCEPT !.entry = TRUE, !.idle = @ + 1]
    /\ conn_tasks' = [conn_tasks EXCEPT ![t].pc = "idle"]
    /\ ConnFrame

\* cleanup_expired_connections: pool.retain(not expired).
CleanupExpired ==
    /\ conn_pool.entry /\ conn_pool.idle > 0
    /\ \E expired \in 1..conn_pool.idle :
          conn_pool' = [conn_pool EXCEPT !.idle = @ - expired]
    /\ UNCHANGED conn_tasks
    /\ ConnFrame

NextConn ==
    \/ \E t \in ConnTasks : GetConnection(t)
    \/ \E t \in ConnTasks : IntoStream(t)
    \/ \E t \in ConnTasks : ReturnConnectionCall(t)
    \/ \E t \in ConnTasks : ReturnConnectionRead(t)
    \/ \E t \in ConnTasks : ReturnConnectionWrite(t)
    \/ CleanupExpired

SpecConn == InitConn /\ [][NextConn]_vars

\* C38: after any interleaving of get_connection, return_connection and cleanup
\* the idle connections held for the address number at most
\* max_connections_per_host.
C38_IdlePerHostBounded ==
    conn_pool.idle <= conn_pool.max_connections_per_host

(* ws::WebSocketManager: the monitoring connections and their ids *)

\* The largest websocket_max_connections a manager of the model is configured
\* with, and how many add_connection calls a behaviour makes.
MaxWsConnections == 3
MaxWsAdds == 5

\* WebSocketManager::new: no connection, next_id 0.
WebSocketManagerNew(config) ==
    [connections |-> {}, next_id |-> 0,
     websocket_max_connections |-> config]

InitWsManager ==
    /\ NoSession
    /\ InitStats
    /\ sessions = << >>
    /\ fn_arg = << >> /\ fn_ret = << >>
    /\ NoBufferPool
    /\ NoConnPool
    /\ \E m \in 0..MaxWsConnections : ws_manager = WebSocketManagerNew(m)
    /\ ws_calls = [adds |-> 0, ok |-> TRUE, id |-> 0, returned |-> {}]

WsManagerFrame ==
    UNCHANGED << purev, cfgv, pool, borrowers, conn_pool, conn_tasks, cliv, tgtv,
                 udpv, reqv, upv, downv, bytev, connv, dialled, active_connections,
                 rejected_connections, sessions >>

\* The id after the one add_connection hands out.
NextIdAfter_Reuse(manager) == Cardinality(manager.connections)
NextIdAfter(manager) == manager.next_id + 1

\* add_connection, called under ws_manager.write(): Err at capacity, otherwise
\* the connection is inserted under next_id and next_id moves on.
add_connection(manager) ==
    IF Cardinality(manager.connections) >= manager.websocket_max_connections
    THEN [ok |-> FALSE, id |-> 0, manager |-> manager]
    ELSE [ok |-> TRUE, id |-> manager.next_id,
          manager |-> [manager EXCEPT !.connections = @ \cup {manager.next_id},
                                      !.next_id = NextIdAfter(manager)]]

\* remove_connection: HashMap::remove of the id, nothing else.
remove_connection(manager, id) ==
    [manager EXCEPT !.connections = @ \ {id}]

\* handle_websocket_connection: a new client is added, or refused with a Close
\* frame.
AddConnection ==
    /\ ws_calls.adds < MaxWsAdds
    /\ LET r == add_connection(ws_manager)
       IN  /\ ws_manager' = r.manager
           /\ ws_calls' = [adds |-> ws_calls.adds + 1, ok |-> r.ok, id |-> r.id,
                           returned |-> IF r.ok THEN ws_calls.returned \cup {r.id}
                                        ELSE ws_calls.returned]
    /\ WsManagerFrame

\* The client's task ends, a broadcast found the channel closed, or
\* cleanup_stale_connections found the connection stale: its id is removed.
\* An id that is not held is removed too, to no effect.
RemoveConnection ==
    /\ \E id \in 0..MaxWsAdds :
          ws_manager' = remove_connection(ws_manager, id)
    /\ UNCHANGED ws_calls
    /\ WsManagerFrame

NextWsManager ==
    \/ AddConnection
    \/ RemoveConnection

SpecWsManager == InitWsManager /\ [][NextWsManager]_vars

\* C39: the manager never holds more than websocket_max_connections
\* connections; an add_connection at capacity returns an error and leaves the
\* connections and next_id as they were; a successful add returns an id no
\* earlier add returned.
C39_WsManagerBounded ==
    /\ [](Cardinality(ws_manager.connections) <= ws_manager.websocket_max_connections)
    /\ [][ws_calls'.adds = ws_calls.adds + 1 =>
            IF Cardinality(ws_manager.connections)
                   >= ws_manager.websocket_max_connections
            THEN /\ ~ws_calls'.ok
                 /\ ws_manager' = ws_manager
            ELSE /\ ws_calls'.ok
                 /\ ws_calls'.id \notin ws_calls.returned
                 /\ ws_calls'.id \in ws_manager'.connections]_vars

\* A refused add at capacity after an id was given out, removed, and another
\* given out in its place.
C39_Witness ==
    /\ ~ws_calls.ok
    /\ ws_manager.websocket_max_connections > 0
    /\ Cardinality(ws_manager.connections) = ws_manager.websocket_max_connections
    /\ Cardinality(ws_calls.returned) > ws_manager.websocket_max_connections

(* time::format_rfc3339 *)

\* The timestamps of the model: every day from the epoch to MaxDay, and some
\* later days around leap days and year ends, at three times of the day.
MaxDay == 1500
LaterDays == {10957, 11016, 11017, 11322, 11323, 19782, 20088, 20089, 20761}
SecsOfDayCorpus == {0, 45296, 86399}

SECS_PER_MINUTE == 60
SECS_PER_HOUR == 3600
SECS_PER_DAY == 86400
DAYS_PER_400_YEARS == 146097
DAYS_PER_100_YEARS == 36524
DAYS_PER_4_YEARS == 1461
DAYS_PER_NORMAL_YEAR == 365
MONTH_DAYS == << 31, 28, 31, 30, 31, 30, 31, 31, 30, 31, 30, 31 >>

TimeInputs ==
    { d * SECS_PER_DAY + s : d \in (0..MaxDay) \cup LaterDays, s \in SecsOfDayCorpus }

\* (year % 4 == 0 && year % 100 != 0) || (year % 400 == 0)
IsLeap(year) == (year % 4 = 0 /\ year % 100 # 0) \/ (year % 400 = 0)

\* format!("{:0w}", n) for 0 <= n < 10^w: the w decimal digits of n.
RECURSIVE Padded(_, _)
Padded(n, w) ==
    IF w = 0 THEN << >> ELSE Append(Padded(n \div 10, w - 1), n % 10)

\* format!("{:04}-{:02}-{:02}T{:02}:{:02}:{:02}Z", ..)
Rfc3339(year, month, day, hour, minute, second) ==
    Padded(year, 4) \o << "-" >> \o Padded(month, 2) \o << "-" >> \o Padded(day, 2)
    \o << "T" >> \o Padded(hour, 2) \o << ":" >> \o Padded(minute, 2)
    \o << ":" >> \o Padded(second, 2) \o << "Z" >>

\* for m in 0..12: the first month whose length the remaining day fits in;
\* month stays 1 when the loop ends without a break.
RECURSIVE MonthLoop(_, _, _)
MonthLoop(m, day, is_leap) ==
    IF m = 12 THEN [month |-> 1, day |-> day]
    ELSE LET days_in_month == IF m = 1 /\ is_leap THEN 29 ELSE MONTH_DAYS[m + 1]
         IN  IF day <= days_in_month THEN [month |-> m + 1, day |-> day]
             ELSE MonthLoop(m + 1, day - days_in_month, is_leap)

\* format_rfc3339 for timestamp >= 0, where / and % of i64 are \div and %.
format_rfc3339(timestamp) ==
    LET days        == timestamp \div SECS_PER_DAY
        secs_of_day == timestamp % SECS_PER_DAY
        cycles_400  == days \div DAYS_PER_400_YEARS
        rem_400     == days % DAYS_PER_400_YEARS
        cycles_100  == rem_400 \div DAYS_PER_100_YEARS
        rem_100     == rem_400 % DAYS_PER_100_YEARS
        cycles_4    == rem_100 \div DAYS_PER_4_YEARS
        rem_4       == rem_100 % DAYS_PER_4_YEARS
        years       == rem_4 \div DAYS_PER_NORMAL_YEAR
        remaining_days == rem_4 % DAYS_PER_NORMAL_YEAR
        year        == 1970 + cycles_400 * 400 + cycles_100 * 100 + cycles_4 * 4 + years
        md          == MonthLoop(0, remaining_days + 1, IsLeap(year))
        hour        == secs_of_day \div SECS_PER_HOUR
        minute      == (secs_of_day % SECS_PER_HOUR) \div SECS_PER_MINUTE
        second      == secs_of_day % SECS_PER_MINUTE
    IN  Rfc3339(year, md.month, md.day, hour, minute, second)

\* The civil date of a day number, by walking the calendar from 1970-01-01:
\* whole years first, then whole months.
RECURSIVE CivilYear(_, _)
CivilYear(year, days) ==
    LET len == IF IsLeap(year) THEN 366 ELSE 365
    IN  IF days < len THEN [year |-> year, day_of_year |-> days]
        ELSE CivilYear(year + 1, days - len)

RECURSIVE CivilMonth(_, _, _)
CivilMonth(year, month, days) ==
    LET len == IF month = 2 /\ IsLeap(year) THEN 29 ELSE MONTH_DAYS[month]
    IN  IF days < len THEN [month |-> month, day |-> days + 1]
        ELSE CivilMonth(year, month + 1, days - len)

CivilRfc3339(timestamp) ==
    LET y  == CivilYear(1970, timestamp \div 86400)
        md == CivilMonth(y.year, 1, y.day_of_year)
        s  == timestamp % 86400
    IN  Rfc3339(y.year, md.month, md.day, s \div 3600, (s % 3600) \div 60, s % 60)

InitTime ==
    /\ NoSession
    /\ InitStats
    /\ sessions = << >>
    /\ NoPool
    /\ fn_arg \in TimeInputs
    /\ fn_ret = << >>

\* UtcTime::to_rfc3339: format_rfc3339(self.timestamp).
ToRfc3339 ==
    /\ fn_ret = << >>
    /\ fn_ret' = format_rfc3339(fn_arg)
    /\ UNCHANGED << fn_arg, cfgv, poolv, cliv, tgtv, udpv, reqv, upv, downv, bytev,
                    connv, dialled, active_connections, rejected_connections,
                    sessions >>

NextTime == ToRfc3339

SpecTime == InitTime /\ [][NextTime]_vars

\* C40: for every timestamp t >= 0 the string format_rfc3339(t) is the UTC
\* calendar date and time of t, as a conversion that walks the calendar from
\* 1970-01-01 gives it (so the month is in 1..12, the day within the month,
\* leap years counted).
C40_FormatIsCivilDate ==
    fn_ret # << >> => fn_ret = CivilRfc3339(fn_arg)

====
